---- MODULE Spec2Model ----
(***************************************************************************)
(* Options-Pricing-Model: the pricing models (src/src/models) as a state   *)
(* machine.                                                                *)
(*                                                                         *)
(* Numbers.  Python floats are modelled in fixed point: a dimensionless    *)
(* quantity or an amount of money x is the integer x * FP.  Time to        *)
(* maturity is counted in days, so that the theta bump 1/365 is one unit.  *)
(* With FP = 10000 the bumps 0.01 of _finite_difference_greeks are 100     *)
(* units and the clamp 0.0001 of implied_volatility is one unit.           *)
(***************************************************************************)
EXTENDS Integers, Sequences, FiniteSets, TLC

FP == 10000
DaysPerYear == 365

(***************************************************************************)
(* Library functions (math / numpy / scipy), in fixed point.               *)
(***************************************************************************)
Abs(x) == IF x < 0 THEN -x ELSE x

Max(a, b) == IF a >= b THEN a ELSE b

\* a / b rounded to the nearest integer, for b > 0
DivRound(a, b) == (2 * a + b) \div (2 * b)

\* a * b / FP
Mul(a, b) == DivRound(a * b, FP)

\* a / b in fixed point; the sign of b is moved to the numerator
Div(a, b) == IF b > 0 THEN DivRound(a * FP, b) ELSE DivRound((-a) * FP, -b)

RECURSIVE SqrtIter(_, _)
SqrtIter(n, g) ==
  LET h == (g + n \div g) \div 2
  IN IF h >= g THEN g ELSE SqrtIter(n, h)

\* floor of the square root of a natural number
ISqrt(n) == IF n = 0 THEN 0 ELSE SqrtIter(n, n)

\* np.sqrt on a fixed-point argument x >= 0
Sqrt(x) == ISqrt(x * FP)

RECURSIVE ExpSeries(_, _, _, _)
ExpSeries(x, term, k, acc) ==
  IF term = 0 \/ k > 12 THEN acc
  ELSE LET t == DivRound(term * x, k * FP)
       IN ExpSeries(x, t, k + 1, acc + t)

\* np.exp on a fixed-point argument: halve the argument until |x| <= 1/2,
\* sum the power series, square back
RECURSIVE Exp(_)
Exp(x) ==
  IF Abs(x) > FP \div 2
  THEN LET h == Exp(x \div 2)
           r == Exp(x - x \div 2)
       IN Mul(h, r)
  ELSE ExpSeries(x, FP, 1, FP)

\* u ** n for an integer exponent n >= 0
RECURSIVE Pow(_, _)
Pow(u, n) == IF n = 0 THEN FP ELSE Mul(Pow(u, n - 1), u)

RECURSIVE LnSeries(_, _, _, _)
LnSeries(zz, term, k, acc) ==
  IF term = 0 \/ k > 15 THEN acc
  ELSE LET t == Mul(term, zz)
       IN LnSeries(zz, t, k + 2, acc + DivRound(t, k))

\* np.log on a fixed-point argument x > 0: halve or double into [1/2, 2],
\* then 2 * atanh((x - 1) / (x + 1)) as a series
RECURSIVE Ln(_)
Ln(x) ==
  IF x > 2 * FP THEN Ln(DivRound(x, 2)) + 6931
  ELSE IF 2 * x < FP THEN Ln(2 * x) - 6931
  ELSE LET z == Div(x - FP, x + FP)
       IN 2 * LnSeries(Mul(z, z), z, 3, z)

\* scipy.stats.norm.pdf; beyond 4.5 standard deviations it rounds to 0
NormPdf(x) ==
  IF 2 * Abs(x) >= 9 * FP THEN 0
  ELSE Mul(3989, Exp(-((x * x) \div (2 * FP))))

\* scipy.stats.norm.cdf for x >= 0 (Abramowitz-Stegun 26.2.16)
NormCdfPos(x) ==
  IF 2 * x >= 9 * FP THEN FP
  ELSE LET t  == Div(FP, FP + Mul(3327, x))
           t2 == Mul(t, t)
           t3 == Mul(t2, t)
           poly == Mul(4362, t) - Mul(1202, t2) + Mul(9373, t3)
       IN FP - Mul(NormPdf(x), poly)

\* scipy.stats.norm.cdf
NormCdf(x) == IF x >= 0 THEN NormCdfPos(x) ELSE FP - NormCdfPos(-x)

(***************************************************************************)
(* OptionParams (base_model.py:8-16).  S, K in money * FP; T in days;      *)
(* r, sigma, div_yield in FP; is_call a boolean.                           *)
(***************************************************************************)
OptionParams(S, K, T, r, sigma, div_yield, is_call) ==
  [S |-> S, K |-> K, T |-> T, r |-> r, sigma |-> sigma,
   div_yield |-> div_yield, is_call |-> is_call]

\* _validate_params with the rate test written `params.r <= 0`
_validate_params_rate_le(params) ==
  IF params.S <= 0 THEN "Stock price must be positive"
  ELSE IF params.K <= 0 THEN "Strike price must be positive"
  ELSE IF params.T <= 0 THEN "Time to maturity must be positive"
  ELSE IF params.sigma <= 0 THEN "Volatility must be positive"
  ELSE IF params.r <= 0 THEN "Risk-free rate cannot be negative"
  ELSE IF params.div_yield < 0 THEN "Dividend yield cannot be negative"
  ELSE "ok"

\* BaseOptionModel._validate_params: the message of the ValueError raised,
\* or "ok" when the method returns
_validate_params(params) ==
  IF params.S <= 0 THEN "Stock price must be positive"
  ELSE IF params.K <= 0 THEN "Strike price must be positive"
  ELSE IF params.T <= 0 THEN "Time to maturity must be positive"
  ELSE IF params.sigma <= 0 THEN "Volatility must be positive"
  ELSE IF params.r < 0 THEN "Risk-free rate cannot be negative"
  ELSE IF params.div_yield < 0 THEN "Dividend yield cannot be negative"
  ELSE "ok"

\* params.T in years, fixed point
Years(T) == DivRound(T * FP, DaysPerYear)

\* BaseOptionModel._calculate_d1_d2
_calculate_d1_d2(params) ==
  LET T     == Years(params.T)
      sqrtT == Sqrt(T)
      drift == params.r - params.div_yield + DivRound(Mul(params.sigma, params.sigma), 2)
      d1    == Div(Ln(Div(params.S, params.K)) + Mul(drift, T),
                   Mul(params.sigma, sqrtT))
      d2    == d1 - Mul(params.sigma, sqrtT)
  IN [d1 |-> d1, d2 |-> d2]

\* the price with the put written on cdf(d2) and cdf(d1), signs not turned
BlackScholesValue_put_unsigned(params) ==
  LET d      == _calculate_d1_d2(params)
      T      == Years(params.T)
      exp_qt == Exp(-Mul(params.div_yield, T))
      exp_rt == Exp(-Mul(params.r, T))
  IN IF params.is_call
     THEN Mul(Mul(params.S, exp_qt), NormCdf(d.d1))
          - Mul(Mul(params.K, exp_rt), NormCdf(d.d2))
     ELSE Mul(Mul(params.K, exp_rt), NormCdf(d.d2))
          - Mul(Mul(params.S, exp_qt), NormCdf(d.d1))

\* BlackScholesModel.price, after validation
BlackScholesValue(params) ==
  LET d      == _calculate_d1_d2(params)
      T      == Years(params.T)
      exp_qt == Exp(-Mul(params.div_yield, T))
      exp_rt == Exp(-Mul(params.r, T))
  IN IF params.is_call
     THEN Mul(Mul(params.S, exp_qt), NormCdf(d.d1))
          - Mul(Mul(params.K, exp_rt), NormCdf(d.d2))
     ELSE Mul(Mul(params.K, exp_rt), NormCdf(-d.d2))
          - Mul(Mul(params.S, exp_qt), NormCdf(-d.d1))

\* BlackScholesModel.greeks, after validation
BlackScholesGreeks(params) ==
  LET d      == _calculate_d1_d2(params)
      S      == params.S
      K      == params.K
      T      == Years(params.T)
      r      == params.r
      sigma  == params.sigma
      q      == params.div_yield
      exp_qt == Exp(-Mul(q, T))
      exp_rt == Exp(-Mul(r, T))
      sqrt_T == Sqrt(T)
      decay  == -Div(Mul(Mul(Mul(S, exp_qt), NormPdf(d.d1)), sigma), 2 * sqrt_T)
      delta  == IF params.is_call THEN Mul(exp_qt, NormCdf(d.d1))
                ELSE -Mul(exp_qt, NormCdf(-d.d1))
      theta  == IF params.is_call
                THEN decay - Mul(Mul(Mul(r, K), exp_rt), NormCdf(d.d2))
                           + Mul(Mul(Mul(q, S), exp_qt), NormCdf(d.d1))
                ELSE decay + Mul(Mul(Mul(r, K), exp_rt), NormCdf(-d.d2))
                           - Mul(Mul(Mul(q, S), exp_qt), NormCdf(-d.d1))
      gamma  == Div(Mul(exp_qt, NormPdf(d.d1)), Mul(Mul(S, sigma), sqrt_T))
      vega   == Mul(Mul(Mul(S, exp_qt), sqrt_T), NormPdf(d.d1))
      rho    == Mul(Mul(Mul(K, T), exp_rt),
                    IF params.is_call THEN NormCdf(d.d2) ELSE -NormCdf(-d.d2))
  IN [delta |-> delta, gamma |-> gamma, theta |-> theta, vega |-> vega, rho |-> rho]

(***************************************************************************)
(* BinomialTreeModel (binomial_tree.py).  A grid is a function             *)
(* [node -> [step -> value]] over (0..steps) x (0..steps), as the numpy    *)
(* arrays stock_tree[node, step] and option_tree[node, step] are.          *)
(***************************************************************************)
Zeros(steps) == [node \in 0..steps |-> [step \in 0..steps |-> 0]]

\* dt = params.T / self.steps, in years
TimeStep(params, steps) == DivRound(params.T * FP, DaysPerYear * steps)

\* BinomialTreeModel._build_tree: (stock_tree, p, u, d)
_build_tree(params, steps) ==
  LET dt == TimeStep(params, steps)
      u  == Exp(Mul(params.sigma, Sqrt(dt)))
      d  == Div(FP, u)
      p  == Div(Exp(Mul(params.r - params.div_yield, dt)) - d, u - d)
      stock_tree ==
        [node \in 0..steps |-> [step \in 0..steps |->
           IF step = 0 THEN (IF node = 0 THEN params.S ELSE 0)
           ELSE IF node <= step
                THEN Mul(Mul(params.S, Pow(u, step - node)), Pow(d, node))
                ELSE 0]]
  IN [stock_tree |-> stock_tree, p |-> p, u |-> u, d |-> d]

\* the option payoff at maturity written into column `steps`
Payoff(params, steps, stock_tree, option_tree) ==
  [node \in 0..steps |-> [step \in 0..steps |->
     IF step = steps
     THEN IF params.is_call
          THEN Max(0, stock_tree[node][steps] - params.K)
          ELSE Max(0, params.K - stock_tree[node][steps])
     ELSE option_tree[node][step]]]

\* the node written to hold the option at every node, never to exercise it
NodeValue_hold_only(params, american, stock_tree, option_tree, p, df, i, j) ==
  Mul(df, Mul(p, option_tree[i][j + 1]) + Mul(FP - p, option_tree[i + 1][j + 1]))

\* one node of the backward induction (binomial_tree.py:77-87)
NodeValue(params, american, stock_tree, option_tree, p, df, i, j) ==
  LET hold_value == Mul(df, Mul(p, option_tree[i][j + 1])
                            + Mul(FP - p, option_tree[i + 1][j + 1]))
      exercise_value == IF params.is_call THEN stock_tree[i][j] - params.K
                        ELSE params.K - stock_tree[i][j]
  IN IF american THEN Max(hold_value, exercise_value) ELSE hold_value

\* the loop `for j in range(self.steps - 1, -1, -1)`, from step j down to 0
RECURSIVE BackwardInduction(_, _, _, _, _, _, _, _)
BackwardInduction(params, steps, american, stock_tree, option_tree, p, df, j) ==
  IF j < 0 THEN option_tree
  ELSE LET column == [i \in 0..j |->
                        NodeValue(params, american, stock_tree, option_tree, p, df, i, j)]
           written == [node \in 0..steps |-> [step \in 0..steps |->
                         IF step = j /\ node <= j THEN column[node]
                         ELSE option_tree[node][step]]]
       IN BackwardInduction(params, steps, american, stock_tree, written, p, df, j - 1)

\* BinomialTreeModel.price after validation: the option tree it fills
OptionTree(params, steps, american) ==
  LET tree == _build_tree(params, steps)
      dt   == TimeStep(params, steps)
      df   == Exp(-Mul(params.r, dt))
  IN BackwardInduction(params, steps, american, tree.stock_tree,
                       Payoff(params, steps, tree.stock_tree, Zeros(steps)),
                       tree.p, df, steps - 1)

BinomialValue(params, steps, american) == OptionTree(params, steps, american)[0][0]

\* one access to a cell of a grid: stock_tree[node, step] or
\* option_tree[node, step], read or assigned
Read(grid, node, step) == [kind |-> "read", grid |-> grid, node |-> node, step |-> step]
Write(grid, node, step) == [kind |-> "write", grid |-> grid, node |-> node, step |-> step]

RECURSIVE Concat(_)
Concat(seqs) == IF seqs = <<>> THEN <<>> ELSE Head(seqs) \o Concat(Tail(seqs))

\* the assignments of _build_tree in program order (binomial_tree.py:32-38);
\* np.zeros creates the grid and assigns no cell
BuildAccesses(steps) ==
  <<Write("stock", 0, 0)>>
  \o Concat([i \in 1..steps |-> [k \in 1..(i + 1) |-> Write("stock", k - 1, i)]])

\* option_tree[:, steps] = np.maximum(0, +-(stock_tree[:, steps] - K))
\* (binomial_tree.py:65-68, 145-148): the column is read, then assigned
PayoffAccesses(steps) ==
  [k \in 1..(steps + 1) |-> Read("stock", k - 1, steps)]
  \o [k \in 1..(steps + 1) |-> Write("option", k - 1, steps)]

\* the loops of the backward induction and the return (binomial_tree.py:75-89)
InductionAccesses(steps, american) ==
  Concat([m \in 1..steps |->
    LET j == steps - m
    IN Concat([k \in 1..(j + 1) |->
         LET i == k - 1
         IN <<Read("option", i, j + 1), Read("option", i + 1, j + 1)>>
            \o (IF american THEN <<Read("stock", i, j)>> ELSE <<>>)
            \o <<Write("option", i, j)>>])])
  \o <<Read("option", 0, 0)>>

\* every access of the grids in BinomialTreeModel.price after validation
PriceAccesses(steps, american) ==
  BuildAccesses(steps) \o PayoffAccesses(steps) \o InductionAccesses(steps, american)

\* the loops of the boundary scan (binomial_tree.py:152-161): the intrinsic
\* value, the test, and the append of a qualifying node's price
ScanAccesses(params, steps, stock_tree, option_tree) ==
  Concat([m \in 1..(steps + 1) |->
    LET j == m - 1
    IN Concat([k \in 1..(j + 1) |->
         LET i == k - 1
             intrinsic == IF params.is_call THEN stock_tree[i][j] - params.K
                          ELSE params.K - stock_tree[i][j]
         IN <<Read("stock", i, j), Read("option", i, j)>>
            \o (IF Abs(option_tree[i][j] - intrinsic) < 1
                THEN <<Read("stock", i, j)>> ELSE <<>>)])])

\* BlackScholesModel.price: what the call does, as [error, value]
BlackScholesModel_price(params) ==
  IF _validate_params(params) # "ok"
  THEN [error |-> _validate_params(params), value |-> 0]
  ELSE [error |-> "ok", value |-> BlackScholesValue(params)]

\* BinomialTreeModel.price: what the call does, as [error, value]
BinomialTreeModel_price(self, params) ==
  IF _validate_params(params) # "ok"
  THEN [error |-> _validate_params(params), value |-> 0]
  ELSE [error |-> "ok", value |-> BinomialValue(params, self.steps, self.american)]

(***************************************************************************)
(* State.                                                                  *)
(***************************************************************************)
VARIABLES
  models,       \* OptionsCalculator.models: name -> [kind, steps, american]
  params,       \* the caller's OptionParams object
  op,           \* the method being executed, "none" between calls
  self,         \* the name of the model the method is executed on
  pc,           \* the position inside the method
  outcome,      \* [status, error]: "none", "returned" or "raised" with its message
  computed,     \* what the call has computed so far (numbers, trees)
  price_result, \* the value the last price call returned
  greeks_result,\* the dictionary the last greeks call returned
  prices,       \* the price each model returned for params (app.py:225-235)
  fd,           \* _finite_difference_greeks: its locals, and params at entry
  price_calls,  \* the OptionParams of every self.price call the method made
  iv,           \* implied_volatility: its arguments and locals
  iv_result,    \* the sigma the last implied_volatility call returned
  iv_log,       \* what the running implied_volatility call has evaluated so far
  bd,           \* get_early_exercise_boundary: its trees and the list it returns
  vol_args,     \* the arguments of the running VolatilityCalculator call
  vol_result,   \* what the last VolatilityCalculator call returned
  surface,      \* the ImpliedVolatilitySurface instance
  surf,         \* the running accessor call: its arguments and the loop indices
  surface_log,  \* what has been executed on the instance since construction
  surface_result, \* what the last accessor call returned
  measures,     \* calculate_volatility_measures: its arguments and locals
  dash          \* main: the sidebar's selection and the locals of the tabs

callVars == <<models, params, op, self, pc, outcome, computed, price_result,
              greeks_result, prices>>

fdVars == <<fd, price_calls>>

ivVars == <<iv, iv_result, iv_log>>

bdVars == <<bd>>

surfVars == <<surface, surf, surface_log, surface_result>>

appVars == <<measures, dash>>

utilVars == <<vol_args, vol_result, surfVars, appVars>>

vars == <<callVars, fdVars, ivVars, bdVars, utilVars>>

(***************************************************************************)
(* Bounds of the model and the inputs it draws.                            *)
(***************************************************************************)
MaxSteps == 3

ModelNames == {"Black-Scholes", "Binomial Tree (European)", "Binomial Tree (American)"}

\* OptionsCalculator.__init__ (app.py:19-23), with the steps the sidebar sets
ModelsWith(stepsE, stepsA) ==
  [name \in ModelNames |->
     IF name = "Black-Scholes" THEN [kind |-> "bs", steps |-> 0, american |-> FALSE]
     ELSE IF name = "Binomial Tree (European)"
          THEN [kind |-> "bin", steps |-> stepsE, american |-> FALSE]
          ELSE [kind |-> "bin", steps |-> stepsA, american |-> TRUE]]

NoGreeks == [name \in {} |-> 0]

GreekNames == {"delta", "gamma", "theta", "vega", "rho"}

NoPrices == [name \in ModelNames |-> [set |-> FALSE, value |-> 0]]

None == [status |-> "none", error |-> ""]
Returned == [status |-> "returned", error |-> ""]
Raised(message) == [status |-> "raised", error |-> message]

\* the inputs of the pricing calls: every field with values on both sides of
\* its validity test
PriceParams ==
  { OptionParams(S, K, T, r, sigma, q, c) :
      S \in {-FP, 0, FP}, K \in {0, FP, 11 * (FP \div 10)}, T \in {-1, 0, 30, 365},
      r \in {-100, 0, 1000}, sigma \in {-200, 0, 200, 2000},
      q \in {-100, 0, 500}, c \in BOOLEAN }

\* the locals of _finite_difference_greeks before the method is entered
NoLocals == [entry |-> OptionParams(0, 0, 0, 0, 0, 0, FALSE),
             copies |-> [name \in {} |-> 0],
             prices |-> [name \in {} |-> 0],
             greeks |-> NoGreeks]

InitFd == fd = NoLocals /\ price_calls = <<>>

\* the locals of implied_volatility before the method is entered
NoSearch == [market_price |-> 0, tolerance |-> 0, max_iter |-> 0,
             sigma |-> 0, i |-> 0, price |-> 0, diff |-> 0, vega |-> 0]

\* nothing evaluated yet: the sigma of params at entry, the sigma of every
\* price call, the (sigma, price) of every price returned, the sigma of every
\* greeks call, the (sigma, vega) of every vega returned, every sigma update
NoLog == [entry_params |-> OptionParams(0, 0, 0, 0, 0, 0, FALSE),
          entry_sigma |-> 0, trace |-> <<>>, evals |-> <<>>,
          greeks_calls |-> <<>>, vegas |-> <<>>, updates |-> <<>>]

InitIv == iv = NoSearch /\ iv_result = 0 /\ iv_log = NoLog

\* the locals of get_early_exercise_boundary before the method is entered
NoBoundary == [stock_tree |-> <<>>, option_tree |-> <<>>, boundary |-> <<>>,
               accesses |-> <<>>]

InitBd == bd = NoBoundary

\* no VolatilityCalculator call made yet
NoVolArgs == [prices |-> <<>>, log_returns |-> TRUE, returns |-> <<>>, window |-> 252,
              decay |-> 9400, alpha |-> 1000, beta |-> 8000]

\* no result of a VolatilityCalculator call held by the caller
NoVolResult == [of |-> "none", value |-> <<>>]

\* iv_surface of an instance: None until calculate_surface has assigned it
NoneGrid == [is_none |-> TRUE, grid |-> <<>>]

\* no accessor call in progress
NoAccess == [arg |-> <<>>, i |-> 0, j |-> 0]

\* nothing executed on the instance yet
NoSurfaceLog == [calls |-> 0, runs |-> 0, visited |-> <<>>, failed |-> {}, read |-> <<>>]

\* an instance nothing is asked of
EmptySurface == [strikes |-> <<>>, maturities |-> <<>>, spot |-> 0, rates |-> <<>>,
                 market_prices |-> <<>>, iv_surface |-> NoneGrid]

InitSurf == surf = NoAccess /\ surface_log = NoSurfaceLog /\ surface_result = <<>>

\* calculate_volatility_measures not called: no bars, no series
NoMeasures == [hist_data |-> <<>>, window |-> 0, returns |-> <<>>,
               series |-> [name \in {} |-> <<>>], current_vols |-> <<>>]

\* main before the sidebar is read
NoDash == [selected |-> "", model_name |-> "", compared |-> <<>>, curves |-> ""]

InitApp == measures = NoMeasures /\ dash = NoDash

InitUtil == /\ vol_args = NoVolArgs /\ vol_result = NoVolResult
            /\ surface = EmptySurface /\ InitSurf /\ InitApp

(***************************************************************************)
(* price and greeks calls on the models of the calculator.                 *)
(***************************************************************************)
InitPrice ==
  /\ InitFd /\ InitIv /\ InitBd /\ InitUtil
  /\ \E stepsE \in 1..MaxSteps, stepsA \in 1..MaxSteps : models = ModelsWith(stepsE, stepsA)
  /\ params \in PriceParams
  /\ op = "none" /\ self = "Black-Scholes" /\ pc = "idle"
  /\ outcome = None /\ computed = {}
  /\ price_result = 0 /\ greeks_result = NoGreeks
  /\ prices = NoPrices

\* entry of a method whose first statement is self._validate_params(params)
Enter(method, name) ==
  /\ pc = "idle"
  /\ op' = method /\ self' = name
  /\ computed' = {}
  /\ IF _validate_params(params) # "ok"
     THEN outcome' = Raised(_validate_params(params)) /\ pc' = "done"
     ELSE outcome' = None /\ pc' = "validated"
  /\ UNCHANGED <<models, params, price_result, greeks_result, prices, fdVars, ivVars, bdVars, utilVars>>

\* black_scholes.py:12
BlackScholes_price_validate == Enter("price", "Black-Scholes")

\* black_scholes.py:13-23
BlackScholes_price_compute ==
  /\ pc = "validated" /\ op = "price" /\ models[self].kind = "bs"
  /\ price_result' = BlackScholesValue(params)
  /\ computed' = {"d1_d2", "price"}
  /\ prices' = [prices EXCEPT ![self] = [set |-> TRUE, value |-> price_result']]
  /\ outcome' = Returned /\ pc' = "done"
  /\ UNCHANGED <<models, params, op, self, greeks_result, fdVars, ivVars, bdVars, utilVars>>

\* black_scholes.py:26
BlackScholes_greeks_validate == Enter("greeks", "Black-Scholes")

\* black_scholes.py:27-58
BlackScholes_greeks_compute ==
  /\ pc = "validated" /\ op = "greeks" /\ models[self].kind = "bs"
  /\ greeks_result' = BlackScholesGreeks(params)
  /\ computed' = {"d1_d2", "greeks"}
  /\ outcome' = Returned /\ pc' = "done"
  /\ UNCHANGED <<models, params, op, self, price_result, prices, fdVars, ivVars, bdVars, utilVars>>

\* binomial_tree.py:56
BinomialTree_price_validate ==
  \E name \in ModelNames : models[name].kind = "bin" /\ Enter("price", name)

\* binomial_tree.py:58-89
BinomialTree_price_compute ==
  /\ pc = "validated" /\ op = "price" /\ models[self].kind = "bin"
  /\ price_result' = BinomialValue(params, models[self].steps, models[self].american)
  /\ computed' = {"stock_tree", "option_tree", "price"}
  /\ prices' = [prices EXCEPT ![self] = [set |-> TRUE, value |-> price_result']]
  /\ outcome' = Returned /\ pc' = "done"
  /\ UNCHANGED <<models, params, op, self, greeks_result, fdVars, ivVars, bdVars, utilVars>>

\* the caller takes the result or the exception; the next call can start
Finish ==
  /\ pc = "done" /\ op \in {"price", "greeks"} /\ fd = NoLocals
  /\ pc' = "idle" /\ op' = "none" /\ outcome' = None /\ computed' = {}
  /\ UNCHANGED <<models, params, self, price_result, greeks_result, prices, fdVars, ivVars, bdVars, utilVars>>

NextPrice ==
  \/ BlackScholes_price_validate
  \/ BlackScholes_price_compute
  \/ BlackScholes_greeks_validate
  \/ BlackScholes_greeks_compute
  \/ BinomialTree_price_validate
  \/ BinomialTree_price_compute
  \/ Finish

SpecPrice == InitPrice /\ [][NextPrice]_vars

(***************************************************************************)
(* Properties of the price and greeks calls.                               *)
(***************************************************************************)
ParameterErrors ==
  {"Stock price must be positive", "Strike price must be positive",
   "Time to maturity must be positive", "Volatility must be positive",
   "Risk-free rate cannot be negative", "Dividend yield cannot be negative"}

InvalidParams(p) ==
  p.S <= 0 \/ p.K <= 0 \/ p.T <= 0 \/ p.sigma <= 0 \/ p.r < 0 \/ p.div_yield < 0

ValidParams(p) ==
  p.S > 0 /\ p.K > 0 /\ p.T > 0 /\ p.sigma > 0 /\ p.r >= 0 /\ p.div_yield >= 0

\* C1: a price call (either model) or a Black-Scholes greeks call on params
\* with S<=0, K<=0, T<=0, sigma<=0, r<0 or div_yield<0 has raised a parameter
\* error with nothing computed; on params with S>0, K>0, T>0, sigma>0, r>=0,
\* div_yield>=0 it has passed validation and raises nothing.
C1_ValidationFirst ==
  op \in {"price", "greeks"} =>
    /\ InvalidParams(params) =>
         /\ pc = "done" /\ outcome.status = "raised"
         /\ outcome.error \in ParameterErrors
         /\ computed = {}
    /\ ValidParams(params) =>
         /\ pc \in {"validated", "done"}
         /\ outcome.status # "raised"

\* a binomial price call refused for its volatility alone, nothing computed
C1_Witness ==
  /\ op = "price" /\ models[self].kind = "bin"
  /\ params.sigma <= 0 /\ params.S > 0 /\ params.K > 0 /\ params.T > 0
  /\ params.r >= 0 /\ params.div_yield >= 0
  /\ outcome = Raised("Volatility must be positive") /\ computed = {}

\* C6: every price a binomial model (European or American, steps >= 1) has
\* returned for params that pass validation is non-negative.
C6_PriceNonNegative ==
  \A name \in ModelNames :
    (models[name].kind = "bin" /\ prices[name].set) => prices[name].value >= 0

\* C7: for the same params and the same number of steps, the price of the
\* American binomial model is at least the price of the European one.
C7_AmericanAtLeastEuropean ==
  ( /\ prices["Binomial Tree (European)"].set
    /\ prices["Binomial Tree (American)"].set
    /\ models["Binomial Tree (European)"].steps = models["Binomial Tree (American)"].steps )
  => prices["Binomial Tree (American)"].value >= prices["Binomial Tree (European)"].value


\* the roundings of the four products of the two prices, in units of 1/FP
ParityTolerance == 2

\* S*e^(-q*T) - K*e^(-r*T)
ForwardIntrinsic(p) ==
  Mul(p.S, Exp(-Mul(p.div_yield, Years(p.T)))) - Mul(p.K, Exp(-Mul(p.r, Years(p.T))))

BlackScholesPriced ==
  /\ op = "price" /\ models[self].kind = "bs" /\ pc = "done" /\ outcome = Returned

\* C20: the Black-Scholes price returned for valid params and the price of
\* the option of the other type on the same params differ, call minus put,
\* by S*e^(-q*T) - K*e^(-r*T), within the rounding of the arithmetic.
C20_PutCallParity ==
  BlackScholesPriced =>
    LET other == BlackScholesValue([params EXCEPT !.is_call = ~@])
        call_minus_put == IF params.is_call THEN price_result - other
                          ELSE other - price_result
    IN Abs(call_minus_put - ForwardIntrinsic(params)) <= ParityTolerance

\* a put priced out of the money with a rate and a dividend yield, the
\* two sides of the parity far from zero
C20_Witness ==
  /\ BlackScholesPriced /\ ~params.is_call
  /\ params.K > params.S /\ params.r > 0 /\ params.div_yield > 0
  /\ price_result > ParityTolerance
  /\ Abs(ForwardIntrinsic(params)) > 100 * ParityTolerance

\* option[i,j] of the recursion on the nodes of the tree: the payoff at step
\* `steps`, before it the discounted expectation of the two successors of
\* the node, and for an American model the larger of that and the intrinsic
\* value of the node
RECURSIVE RecursionValue(_, _, _, _, _)
RecursionValue(p, steps, american, i, j) ==
  LET tree == _build_tree(p, steps)
      stock == tree.stock_tree[i][j]
      intrinsic == IF p.is_call THEN stock - p.K ELSE p.K - stock
      discount == Exp(-Mul(p.r, TimeStep(p, steps)))
  IN IF j = steps THEN Max(0, intrinsic)
     ELSE LET hold == Mul(discount,
                          Mul(tree.p, RecursionValue(p, steps, american, i, j + 1))
                          + Mul(FP - tree.p, RecursionValue(p, steps, american, i + 1, j + 1)))
          IN IF american THEN Max(hold, intrinsic) ELSE hold

BinomialPriced ==
  op = "price" /\ pc = "done" /\ outcome = Returned /\ models[self].kind = "bin"

\* C22: the value BinomialTreeModel.price returns is option[0,0] of the
\* recursion: max(0, stock-K) (calls) or max(0, K-stock) (puts) at step
\* `steps`; before it hold = discount*(p*option[i,j+1] + (1-p)*option[i+1,j+1]),
\* taken as it is by a European node and as max(hold, intrinsic) by an
\* American node.
C22_PriceIsRecursion ==
  BinomialPriced =>
    price_result = RecursionValue(params, models[self].steps, models[self].american, 0, 0)

\* an American put of three steps priced above its value without early
\* exercise, and above its intrinsic value at the root
C22_Witness ==
  /\ BinomialPriced /\ models[self].american /\ models[self].steps = MaxSteps
  /\ ~params.is_call
  /\ price_result > RecursionValue(params, models[self].steps, FALSE, 0, 0)
  /\ price_result > params.K - params.S

(***************************************************************************)
(* BinomialTreeModel.greeks = BaseOptionModel._finite_difference_greeks.   *)
(***************************************************************************)
delta_S == 100
delta_t == 1
sigma_bump == 100
r_bump == 100

\* `c = OptionParams(**params.__dict__); c.field += amount` leaving the
\* caller's object alone, as [caller, copy] after the two statements
CopyAndBump_aliased(caller, field, amount) ==
  LET bumped == [caller EXCEPT ![field] = @ + amount]
  IN [caller |-> bumped, copy |-> bumped]

CopyAndBump(caller, field, amount) ==
  [caller |-> caller, copy |-> [caller EXCEPT ![field] = @ + amount]]

\* the inputs of the greeks calls: S around delta_S, T around delta_t
GreeksParams ==
  { OptionParams(S, K, T, r, sigma, q, c) :
      S \in {50, 100, 200, FP}, K \in {FP \div 2, FP}, T \in {1, 2, 365},
      r \in {0, 500}, sigma \in {0, 200, 2000}, q \in {0}, c \in BOOLEAN }

InitGreeks ==
  /\ \E stepsE \in 1..MaxSteps, stepsA \in 1..MaxSteps : models = ModelsWith(stepsE, stepsA)
  /\ params \in GreeksParams
  /\ op = "none" /\ self = "Black-Scholes" /\ pc = "idle"
  /\ outcome = None /\ computed = {}
  /\ price_result = 0 /\ greeks_result = NoGreeks
  /\ prices = NoPrices
  /\ InitFd /\ InitIv /\ InitBd /\ InitUtil

\* self.price(p) inside the method: the call is logged, and either raises or
\* stores its value in the local `name`
FdPrice(p, name, locals) ==
  LET got == BinomialTreeModel_price(models[self], p)
  IN [error |-> got.error,
      locals |-> [locals EXCEPT !.prices = (name :> got.value) @@ @]]

FdRaise(message) ==
  /\ outcome' = Raised(message) /\ pc' = "done"
  /\ UNCHANGED <<models, op, self, computed, price_result, greeks_result, prices, ivVars, bdVars, utilVars>>

FdGoto(label) ==
  /\ pc' = label
  /\ UNCHANGED <<models, op, self, outcome, computed, price_result, greeks_result, prices,
                 ivVars, bdVars, utilVars>>

\* binomial_tree.py:105 and base_model.py:87
FD_original ==
  /\ pc = "idle"
  /\ \E name \in ModelNames :
       /\ models[name].kind = "bin"
       /\ op' = "greeks" /\ self' = name
       /\ LET got == BinomialTreeModel_price(models[name], params)
          IN /\ fd' = [NoLocals EXCEPT !.entry = params,
                                       !.prices = ("original_price" :> got.value)]
             /\ price_calls' = <<params>>
             /\ IF got.error # "ok"
                THEN outcome' = Raised(got.error) /\ pc' = "done"
                ELSE outcome' = None /\ pc' = "fd_delta"
  /\ computed' = {}
  /\ UNCHANGED <<models, params, price_result, greeks_result, prices, ivVars, bdVars, utilVars>>

\* base_model.py:90-94
FD_delta ==
  /\ pc = "fd_delta"
  /\ LET up   == CopyAndBump(params, "S", delta_S)
         down == CopyAndBump(up.caller, "S", -delta_S)
         l0   == [fd EXCEPT !.copies = ("params_up" :> up.copy)
                                        @@ ("params_down" :> down.copy) @@ @]
         p1   == FdPrice(up.copy, "up", l0)
         p2   == FdPrice(down.copy, "down", p1.locals)
         delta == Div(p2.locals.prices["up"] - p2.locals.prices["down"], 2 * delta_S)
     IN /\ params' = down.caller
        /\ IF p1.error # "ok"
           THEN /\ fd' = l0 /\ price_calls' = Append(price_calls, up.copy)
                /\ FdRaise(p1.error)
           ELSE /\ price_calls' = price_calls \o <<up.copy, down.copy>>
                /\ IF p2.error # "ok"
                   THEN fd' = p1.locals /\ FdRaise(p2.error)
                   ELSE /\ fd' = [p2.locals EXCEPT !.greeks = ("delta" :> delta) @@ @]
                        /\ FdGoto("fd_gamma")

\* base_model.py:97
FD_gamma ==
  /\ pc = "fd_gamma"
  /\ LET up   == fd.copies["params_up"]
         down == fd.copies["params_down"]
         p1   == FdPrice(up, "up", fd)
         p2   == FdPrice(down, "down", p1.locals)
         gamma == Div(p2.locals.prices["up"] - 2 * fd.prices["original_price"]
                        + p2.locals.prices["down"],
                      Mul(delta_S, delta_S))
     IN IF p1.error # "ok"
        THEN /\ price_calls' = Append(price_calls, up)
             /\ fd' = fd /\ FdRaise(p1.error)
        ELSE /\ price_calls' = price_calls \o <<up, down>>
             /\ IF p2.error # "ok"
                THEN fd' = p1.locals /\ FdRaise(p2.error)
                ELSE /\ fd' = [p2.locals EXCEPT !.greeks = ("gamma" :> gamma) @@ @]
                     /\ FdGoto("fd_theta")
  /\ UNCHANGED params

\* one bumped copy, one price call, one forward difference
\* (base_model.py:100-102, 105-107, 110-112)
FdForward(copyName, field, amount, greek, next) ==
  LET cb == CopyAndBump(params, field, amount)
      l0 == [fd EXCEPT !.copies = (copyName :> cb.copy) @@ @]
      p1 == FdPrice(cb.copy, copyName, l0)
      change == p1.locals.prices[copyName] - fd.prices["original_price"]
      value  == IF greek = "theta" THEN -(change * DaysPerYear)
                ELSE Div(change, amount)
  IN /\ params' = cb.caller
     /\ price_calls' = Append(price_calls, cb.copy)
     /\ IF p1.error # "ok"
        THEN fd' = l0 /\ FdRaise(p1.error)
        ELSE /\ fd' = [p1.locals EXCEPT !.greeks = (greek :> value) @@ @]
             /\ FdGoto(next)

\* base_model.py:100-102
FD_theta == pc = "fd_theta" /\ FdForward("params_t", "T", -delta_t, "theta", "fd_vega")

\* base_model.py:105-107
FD_vega == pc = "fd_vega" /\ FdForward("params_vol_up", "sigma", sigma_bump, "vega", "fd_rho")

\* base_model.py:110-112
FD_rho == pc = "fd_rho" /\ FdForward("params_r_up", "r", r_bump, "rho", "fd_return")

\* base_model.py:114-120
FD_return ==
  /\ pc = "fd_return"
  /\ greeks_result' = fd.greeks
  /\ outcome' = Returned /\ pc' = "done"
  /\ UNCHANGED <<models, params, op, self, computed, price_result, prices, fdVars, ivVars, bdVars, utilVars>>

\* the caller takes the dictionary or the exception
FD_finish ==
  /\ pc = "done" /\ op = "greeks" /\ fd # NoLocals
  /\ pc' = "idle" /\ op' = "none" /\ outcome' = None
  /\ fd' = NoLocals /\ price_calls' = <<>>
  /\ UNCHANGED <<models, params, self, computed, price_result, greeks_result, prices, ivVars, bdVars, utilVars>>

NextGreeks ==
  \/ FD_original
  \/ FD_delta
  \/ FD_gamma
  \/ FD_theta
  \/ FD_vega
  \/ FD_rho
  \/ FD_return
  \/ FD_finish

SpecGreeks == InitGreeks /\ [][NextGreeks]_vars

(***************************************************************************)
(* Properties of _finite_difference_greeks.                                *)
(***************************************************************************)
\* the copy each local of the method must hold, given params at entry
ExpectedCopy(base, name) ==
  IF name = "params_up" THEN [base EXCEPT !.S = @ + delta_S]
  ELSE IF name = "params_down" THEN [base EXCEPT !.S = @ - delta_S]
  ELSE IF name = "params_t" THEN [base EXCEPT !.T = @ - delta_t]
  ELSE IF name = "params_vol_up" THEN [base EXCEPT !.sigma = @ + sigma_bump]
  ELSE [base EXCEPT !.r = @ + r_bump]

ExpectedCalls(base) ==
  <<base, ExpectedCopy(base, "params_up"), ExpectedCopy(base, "params_down"),
    ExpectedCopy(base, "params_up"), ExpectedCopy(base, "params_down"),
    ExpectedCopy(base, "params_t"), ExpectedCopy(base, "params_vol_up"),
    ExpectedCopy(base, "params_r_up")>>

\* C8: BinomialTreeModel.greeks on params that pass validation returns a
\* dictionary with exactly the entries delta, gamma, theta, vega, rho; it does
\* not fail, also when T <= 1/365 or S <= 0.01.
C8_GreeksReturned ==
  ( /\ op = "greeks" /\ models[self].kind = "bin" /\ pc = "done"
    /\ ValidParams(fd.entry) )
  => /\ outcome = Returned
     /\ DOMAIN greeks_result = GreekNames

\* C9: while and after BinomialTreeModel.greeks runs, the caller's params are
\* what they were at entry, and every price evaluation was made on params at
\* entry or on a copy of them with one field bumped: S+0.01, S-0.01, T-1/365,
\* sigma+0.01, r+0.01, in the order of the method.
C9_BumpsOnCopies ==
  (op = "greeks" /\ models[self].kind = "bin") =>
    /\ params = fd.entry
    /\ \A name \in DOMAIN fd.copies : fd.copies[name] = ExpectedCopy(fd.entry, name)
    /\ Len(price_calls) <= 8
    /\ price_calls = SubSeq(ExpectedCalls(fd.entry), 1, Len(price_calls))

\* a greeks call that returned after its eight price evaluations
C9_Witness ==
  /\ op = "greeks" /\ models[self].kind = "bin" /\ pc = "done"
  /\ outcome = Returned /\ Len(price_calls) = 8
  /\ DOMAIN fd.copies = {"params_up", "params_down", "params_t", "params_vol_up",
                         "params_r_up"}
  /\ params.is_call

(***************************************************************************)
(* BaseOptionModel.implied_volatility (base_model.py:60-81).               *)
(*                                                                         *)
(* self.price and self.greeks are the abstract methods of the class: what  *)
(* they raise is computed as the two models compute it, the price and the  *)
(* vega they return are drawn from PriceValues and VegaValues.             *)
(***************************************************************************)
MaxIter == 3

\* tolerance counts 1e-5, the default of the argument: ToleranceScale / FP
ToleranceScale == 10

\* the initial guess with the sigma of the argument taken instead
StartSigma_of_params(p) == p.sigma

\* sigma = 0.5 (base_model.py:63)
StartSigma(p) == FP \div 2

\* the floor applied with `sigma < 0`
Clamp_negative_only(sigma) == IF sigma < 0 THEN 1 ELSE sigma

\* if sigma <= 0: sigma = 0.0001 (base_model.py:78-79)
Clamp(sigma) == IF sigma <= 0 THEN 1 ELSE sigma

\* abs(diff) < tolerance (base_model.py:69)
WithinTolerance(diff, tolerance) == Abs(diff) * ToleranceScale < tolerance

\* abs(vega) < 1e-10 (base_model.py:73): on the grid of multiples of 1/FP
\* only 0 is that small
VegaTooSmall(vega) == Abs(vega) < 1

\* sigma - diff / vega (base_model.py:76), rounded to the grid; a result in
\* (0, 1/(2 FP)) rounds to 0 and is floored by Clamp to the same 0.0001
NewtonStep(sigma, diff, vega) == sigma - Div(diff, vega)

\* the loop with `i <= max_iter`
LoopContinues_inclusive(i, max_iter) == i <= max_iter

\* for i in range(max_iter) (base_model.py:64)
LoopContinues(i, max_iter) == i < max_iter

\* what the eight price calls of _finite_difference_greeks raise, if anything
FdGreeksError(p) ==
  LET calls  == <<p,
                  CopyAndBump(p, "S", delta_S).copy,
                  CopyAndBump(p, "S", -delta_S).copy,
                  CopyAndBump(p, "T", -delta_t).copy,
                  CopyAndBump(p, "sigma", sigma_bump).copy,
                  CopyAndBump(p, "r", r_bump).copy>>
      failing == {k \in DOMAIN calls : _validate_params(calls[k]) # "ok"}
  IN IF failing = {} THEN "ok"
     ELSE _validate_params(calls[CHOOSE k \in failing : \A l \in failing : k <= l])

\* the assignment made on a copy, the caller's object left as it was
SetSigma_on_copy(p, sigma) == p

\* params.sigma = sigma (base_model.py:65): params is the caller's object
SetSigma(p, sigma) == [p EXCEPT !.sigma = sigma]

\* what self.greeks(params) raises, if anything
GreeksError(model, p) ==
  IF model.kind = "bs" THEN _validate_params(p) ELSE FdGreeksError(p)

PriceValues == {0, 999, 1000, 1500, 3000}
VegaValues == {-1000, 0, 1000, 20000}
MarketPrices == {1000}
Tolerances == {1, 30}

\* the caller's params: S = 0 fails validation, S = 0.01 and T = 1/365 fail
\* inside the finite-difference greeks; sigma is what the search overwrites
IvParams ==
  { OptionParams(S, FP, T, 0, sigma, 0, TRUE) :
      S \in {0, 100, FP}, T \in {1, 30}, sigma \in {-200, 2000, FP \div 2} }

InitIV ==
  /\ models = ModelsWith(1, 1)
  /\ params \in IvParams
  /\ op = "none" /\ self = "Black-Scholes" /\ pc = "idle"
  /\ outcome = None /\ computed = {}
  /\ price_result = 0 /\ greeks_result = NoGreeks
  /\ prices = NoPrices
  /\ InitFd /\ InitIv /\ InitBd /\ InitUtil

IvRaise(message) ==
  /\ outcome' = Raised(message) /\ pc' = "done"

IvFrame == UNCHANGED <<models, op, self, computed, price_result, greeks_result, prices,
                       fdVars, bdVars, utilVars>>

VegaMessage == "Vega too close to zero, cannot compute implied volatility"
ConvergenceMessage == "Implied volatility did not converge"

\* base_model.py:60-63
IV_enter ==
  /\ pc = "idle"
  /\ \E name \in ModelNames, market_price \in MarketPrices,
        tolerance \in Tolerances, max_iter \in 0..MaxIter :
       /\ op' = "implied_volatility" /\ self' = name
       /\ iv' = [NoSearch EXCEPT !.market_price = market_price,
                                 !.tolerance = tolerance,
                                 !.max_iter = max_iter,
                                 !.sigma = StartSigma(params)]
  /\ iv_log' = [NoLog EXCEPT !.entry_params = params, !.entry_sigma = params.sigma]
  /\ pc' = "iv_loop" /\ outcome' = None
  /\ UNCHANGED <<models, params, computed, price_result, greeks_result, prices,
                 fdVars, bdVars, utilVars, iv_result>>

\* base_model.py:64-67
IV_price ==
  /\ pc = "iv_loop" /\ LoopContinues(iv.i, iv.max_iter)
  /\ params' = SetSigma(params, iv.sigma)
  /\ IF _validate_params(params') # "ok"
     THEN /\ IvRaise(_validate_params(params'))
          /\ iv_log' = [iv_log EXCEPT !.trace = Append(@, iv.sigma)]
          /\ iv' = iv
     ELSE \E price \in PriceValues :
            /\ iv' = [iv EXCEPT !.price = price, !.diff = price - iv.market_price]
            /\ iv_log' = [iv_log EXCEPT
                            !.trace = Append(@, iv.sigma),
                            !.evals = Append(@, [sigma |-> iv.sigma, price |-> price])]
            /\ pc' = "iv_test" /\ outcome' = None
  /\ UNCHANGED iv_result
  /\ IvFrame

\* base_model.py:69-70
IV_test ==
  /\ pc = "iv_test"
  /\ IF WithinTolerance(iv.diff, iv.tolerance)
     THEN iv_result' = iv.sigma /\ outcome' = Returned /\ pc' = "done"
     ELSE iv_result' = iv_result /\ outcome' = None /\ pc' = "iv_greeks"
  /\ UNCHANGED <<params, iv, iv_log>>
  /\ IvFrame

\* base_model.py:72
IV_greeks ==
  /\ pc = "iv_greeks"
  /\ IF GreeksError(models[self], params) # "ok"
     THEN /\ IvRaise(GreeksError(models[self], params))
          /\ iv_log' = [iv_log EXCEPT !.greeks_calls = Append(@, params.sigma)]
          /\ iv' = iv
     ELSE \E vega \in VegaValues :
            /\ iv' = [iv EXCEPT !.vega = vega]
            /\ iv_log' = [iv_log EXCEPT
                            !.greeks_calls = Append(@, params.sigma),
                            !.vegas = Append(@, [sigma |-> params.sigma, vega |-> vega])]
            /\ pc' = "iv_check" /\ outcome' = None
  /\ UNCHANGED <<params, iv_result>>
  /\ IvFrame

\* the test of the vega skipping the iteration instead of raising
IV_check_continue ==
  /\ pc = "iv_check"
  /\ pc' = IF VegaTooSmall(iv.vega) THEN "iv_loop" ELSE "iv_update"
  /\ iv' = IF VegaTooSmall(iv.vega) THEN [iv EXCEPT !.i = @ + 1] ELSE iv
  /\ UNCHANGED <<params, outcome, iv_result, iv_log>>
  /\ IvFrame

\* base_model.py:73-74
IV_check ==
  /\ pc = "iv_check"
  /\ IF VegaTooSmall(iv.vega)
     THEN IvRaise(VegaMessage)
     ELSE outcome' = None /\ pc' = "iv_update"
  /\ UNCHANGED <<params, iv, iv_result, iv_log>>
  /\ IvFrame

\* base_model.py:76-79, and the next i of the range
IV_update ==
  /\ pc = "iv_update"
  /\ LET raw == NewtonStep(iv.sigma, iv.diff, iv.vega)
     IN /\ iv' = [iv EXCEPT !.sigma = Clamp(raw), !.i = @ + 1]
        /\ iv_log' = [iv_log EXCEPT !.updates =
                        Append(@, [from |-> iv.sigma, diff |-> iv.diff, vega |-> iv.vega,
                                   raw |-> raw, to |-> Clamp(raw)])]
  /\ pc' = "iv_loop"
  /\ UNCHANGED <<params, outcome, iv_result>>
  /\ IvFrame

\* base_model.py:81
IV_exhausted ==
  /\ pc = "iv_loop" /\ ~LoopContinues(iv.i, iv.max_iter)
  /\ IvRaise(ConvergenceMessage)
  /\ UNCHANGED <<params, iv, iv_result, iv_log>>
  /\ IvFrame

NextIV ==
  \/ IV_enter
  \/ IV_price
  \/ IV_test
  \/ IV_greeks
  \/ IV_check
  \/ IV_update
  \/ IV_exhausted

SpecIV == InitIV /\ [][NextIV]_vars

(***************************************************************************)
(* Properties of implied_volatility.                                       *)
(***************************************************************************)
Searching == op = "implied_volatility"

\* |price - market_price| < tolerance for a price the search was returned
Converged(e) == Abs(e.price - iv.market_price) * ToleranceScale < iv.tolerance

Last(seq) == seq[Len(seq)]

\* C2: the first price is evaluated at sigma = 0.5 whatever sigma params had
\* at entry; greeks (vega) is evaluated only at a sigma whose price failed the
\* tolerance test; the first price that passes the test ends the search,
\* which returns the sigma that price was computed at, with no vega evaluated
\* there and so no failure for a vega near zero.
C2_StartAndTestFirst ==
  Searching =>
    /\ iv_log.trace # <<>> => iv_log.trace[1] = FP \div 2
    /\ \A k \in DOMAIN iv_log.greeks_calls :
         /\ k <= Len(iv_log.evals)
         /\ iv_log.greeks_calls[k] = iv_log.evals[k].sigma
         /\ ~Converged(iv_log.evals[k])
    /\ \A k \in DOMAIN iv_log.evals :
         Converged(iv_log.evals[k]) =>
           /\ k = Len(iv_log.evals)
           /\ Len(iv_log.greeks_calls) = k - 1
           /\ \/ pc = "iv_test"
              \/ /\ pc = "done" /\ outcome = Returned
                 /\ iv_result = iv_log.evals[k].sigma
    /\ outcome = Returned =>
         /\ iv_log.evals # <<>>
         /\ Converged(Last(iv_log.evals))
         /\ iv_result = Last(iv_log.evals).sigma

\* a search entered with another sigma in params that returned at its second
\* price, at the sigma of that price
C2_Witness ==
  /\ Searching /\ outcome = Returned
  /\ iv_log.entry_sigma # FP \div 2
  /\ Len(iv_log.evals) = 2 /\ iv_log.evals[1].sigma = FP \div 2
  /\ iv_result = iv_log.evals[2].sigma /\ iv_result # FP \div 2

\* C3: an update sigma - diff/vega that is <= 0 sets the next sigma to 0.0001
\* and the search goes on; every sigma price is evaluated at is > 0, and the
\* search never fails with "Volatility must be positive".
C3_SigmaStaysPositive ==
  Searching =>
    /\ \A k \in DOMAIN iv_log.updates :
         LET u == iv_log.updates[k]
         IN /\ u.raw <= 0 => u.to = 1
            /\ u.raw > 0 => u.to = u.raw
            /\ k < Len(iv_log.trace) => iv_log.trace[k + 1] = u.to
            /\ k = Len(iv_log.updates) /\ k = Len(iv_log.trace) =>
                 pc = "iv_loop" \/ outcome = Raised(ConvergenceMessage)
    /\ \A k \in DOMAIN iv_log.trace : iv_log.trace[k] > 0
    /\ outcome.error # "Volatility must be positive"

\* an update that came out at exactly 0, and the price evaluated at 0.0001 next
C3_Witness ==
  /\ Searching
  /\ \E k \in DOMAIN iv_log.updates :
       /\ iv_log.updates[k].raw = 0
       /\ k < Len(iv_log.evals)
       /\ iv_log.evals[k + 1].sigma = 1

\* C4: a vega with |vega| < 1e-10 in an iteration that missed the tolerance
\* makes the call fail with the vega error; no sigma update uses such a vega.
C4_DegenerateVegaRaises ==
  Searching =>
    /\ \A k \in DOMAIN iv_log.vegas :
         Abs(iv_log.vegas[k].vega) < 1 =>
           /\ k = Len(iv_log.vegas)
           /\ Len(iv_log.updates) = k - 1
           /\ pc = "iv_check" \/ (pc = "done" /\ outcome = Raised(VegaMessage))
    /\ \A k \in DOMAIN iv_log.updates : Abs(iv_log.updates[k].vega) >= 1

\* a search that failed on a zero vega in its second iteration
C4_Witness ==
  /\ Searching /\ pc = "done" /\ outcome = Raised(VegaMessage)
  /\ Len(iv_log.vegas) = 2 /\ Last(iv_log.vegas).vega = 0
  /\ Len(iv_log.updates) = 1

NoneConverged == \A k \in DOMAIN iv_log.evals : ~Converged(iv_log.evals[k])

NoDegenerateVega == \A k \in DOMAIN iv_log.vegas : Abs(iv_log.vegas[k].vega) >= 1

IterationBound ==
  /\ Len(iv_log.trace) <= iv.max_iter
  /\ outcome = Returned => Converged(Last(iv_log.evals))

C24_OnlySigmaWritten ==
  Searching =>
    /\ \A field \in {"S", "K", "T", "r", "div_yield", "is_call"} :
         params[field] = iv_log.entry_params[field]
    /\ params.sigma = IF iv_log.trace = <<>> THEN iv_log.entry_params.sigma
                      ELSE Last(iv_log.trace)
    /\ (pc = "done" /\ outcome = Returned) => params.sigma = iv_result
    /\ (pc = "done" /\ outcome # Returned /\ iv_log.trace # <<>>) =>
         params.sigma = Last(iv_log.trace)

\* a search that ran out of iterations: params holds the sigma of the last
\* price, which is neither the sigma of entry nor the sigma computed last
C24_Witness ==
  /\ Searching /\ pc = "done" /\ outcome = Raised(ConvergenceMessage)
  /\ Len(iv_log.trace) >= 2
  /\ params.sigma = Last(iv_log.trace)
  /\ params.sigma # iv_log.entry_params.sigma
  /\ params.sigma # iv.sigma

(***************************************************************************)
(* BinomialTreeModel.get_early_exercise_boundary (binomial_tree.py:124-171)*)
(***************************************************************************)
\* a float of the returned list: np.nan or a number
Nan == [nan |-> TRUE, value |-> 0]
Float(x) == [nan |-> FALSE, value |-> x]

\* element k of a Python array or list, k counted from 0
At(array, k) == array[k + 1]

SetMin(S) == CHOOSE x \in S : \A y \in S : x <= y
SetMax(S) == CHOOSE x \in S : \A y \in S : x >= y

AmericanOnlyMessage == "Early exercise boundary only available for American options"

\* the test written `if self.american`
NotAmerican_inverted(model) == model.american

\* if not self.american (binomial_tree.py:138)
NotAmerican(model) == ~model.american

\* abs(option_tree[i, j] - intrinsic) < 1e-10 (binomial_tree.py:160): on the
\* grid of multiples of 1/FP only 0 is that small
ExerciseOptimal(option_value, intrinsic) == Abs(option_value - intrinsic) < 1

\* the scan with the minimum taken for calls and puts alike
BoundaryAt_min_only(p, stock_tree, option_tree, j) ==
  LET exercise_points ==
        { stock_tree[i][j] : i \in
            { i \in 0..j :
                ExerciseOptimal(option_tree[i][j],
                                IF p.is_call THEN stock_tree[i][j] - p.K
                                ELSE p.K - stock_tree[i][j]) } }
  IN IF exercise_points # {} THEN Float(SetMin(exercise_points)) ELSE Nan

\* the entry of the list for time step j (binomial_tree.py:153-169)
BoundaryAt(p, stock_tree, option_tree, j) ==
  LET exercise_points ==
        { stock_tree[i][j] : i \in
            { i \in 0..j :
                ExerciseOptimal(option_tree[i][j],
                                IF p.is_call THEN stock_tree[i][j] - p.K
                                ELSE p.K - stock_tree[i][j]) } }
  IN IF exercise_points # {}
     THEN IF p.is_call THEN Float(SetMin(exercise_points))
          ELSE Float(SetMax(exercise_points))
     ELSE Nan

\* the inputs of the boundary calls; the method validates nothing, and the
\* tree arithmetic is defined for every T > 0 and sigma > 0
BoundaryParams ==
  { OptionParams(S, K, T, r, sigma, q, c) :
      S \in {0, FP}, K \in {FP \div 2, FP, 11 * (FP \div 10)}, T \in {30, 365},
      r \in {-100, 0, 1000}, sigma \in {200, 2000}, q \in {0, 500}, c \in BOOLEAN }

InitBoundary ==
  /\ \E stepsE \in 1..MaxSteps, stepsA \in 1..MaxSteps : models = ModelsWith(stepsE, stepsA)
  /\ params \in BoundaryParams
  /\ op = "none" /\ self = "Black-Scholes" /\ pc = "idle"
  /\ outcome = None /\ computed = {}
  /\ price_result = 0 /\ greeks_result = NoGreeks
  /\ prices = NoPrices
  /\ InitFd /\ InitIv /\ InitBd /\ InitUtil

BdFrame == UNCHANGED <<models, params, price_result, greeks_result, prices, fdVars, ivVars,
                       utilVars>>

\* binomial_tree.py:138-139
BD_check ==
  /\ pc = "idle"
  /\ \E name \in ModelNames :
       /\ models[name].kind = "bin"
       /\ op' = "get_early_exercise_boundary" /\ self' = name
       /\ IF NotAmerican(models[name])
          THEN outcome' = Raised(AmericanOnlyMessage) /\ pc' = "done"
          ELSE outcome' = None /\ pc' = "bd_build"
  /\ computed' = {} /\ bd' = NoBoundary
  /\ BdFrame

\* binomial_tree.py:141-148
BD_build ==
  /\ pc = "bd_build"
  /\ LET steps == models[self].steps
         stock_tree == _build_tree(params, steps).stock_tree
     IN bd' = [bd EXCEPT !.stock_tree = stock_tree,
                         !.option_tree = Payoff(params, steps, stock_tree, Zeros(steps)),
                         !.accesses = BuildAccesses(steps) \o PayoffAccesses(steps)]
  /\ computed' = {"stock_tree", "option_tree"}
  /\ pc' = "bd_scan"
  /\ UNCHANGED <<op, self, outcome>>
  /\ BdFrame

\* binomial_tree.py:150-171; entry j of the list is element j + 1 of the sequence
BD_scan ==
  /\ pc = "bd_scan"
  /\ bd' = [bd EXCEPT !.boundary =
              [k \in 1..(models[self].steps + 1) |->
                 BoundaryAt(params, bd.stock_tree, bd.option_tree, k - 1)],
                       !.accesses = @ \o ScanAccesses(params, models[self].steps,
                                                      bd.stock_tree, bd.option_tree)]
  /\ computed' = computed \cup {"boundary"}
  /\ outcome' = Returned /\ pc' = "done"
  /\ UNCHANGED <<op, self>>
  /\ BdFrame

\* the caller takes the list or the exception
BD_finish ==
  /\ pc = "done" /\ op = "get_early_exercise_boundary"
  /\ pc' = "idle" /\ op' = "none" /\ outcome' = None
  /\ UNCHANGED <<self, computed, bd>>
  /\ BdFrame

NextBoundary ==
  \/ BD_check
  \/ BD_build
  \/ BD_scan
  \/ BD_finish

SpecBoundary == InitBoundary /\ [][NextBoundary]_vars

\* C10: get_early_exercise_boundary on a model with american = False has
\* raised its error with no tree built and no boundary, whatever params are.
C10_EuropeanRefused ==
  (op = "get_early_exercise_boundary" /\ ~models[self].american) =>
    /\ pc = "done" /\ outcome = Raised(AmericanOnlyMessage)
    /\ computed = {}
    /\ bd = NoBoundary

\* the European model refused, on params that would not even pass validation
C10_Witness ==
  /\ op = "get_early_exercise_boundary" /\ self = "Binomial Tree (European)"
  /\ outcome = Raised(AmericanOnlyMessage) /\ bd = NoBoundary
  /\ params.S <= 0

(***************************************************************************)
(* Properties of the list get_early_exercise_boundary returns.             *)
(***************************************************************************)
\* the nodes i of step j at which the trees of the call meet the criterion
\* of binomial_tree.py:160
QualifyingNodes(j) ==
  { i \in 0..j :
      Abs(bd.option_tree[i][j]
          - (IF params.is_call THEN bd.stock_tree[i][j] - params.K
             ELSE params.K - bd.stock_tree[i][j])) < 1 }

BoundaryReturned ==
  /\ op = "get_early_exercise_boundary" /\ pc = "done" /\ outcome = Returned

\* C11: the list an American model returns has steps + 1 entries; entry j is
\* NaN exactly when no node i in 0..j of step j meets the exercise criterion,
\* and otherwise is the least qualifying stock price of step j for a call and
\* the greatest for a put.
C11_BoundaryEntries ==
  BoundaryReturned =>
    /\ models[self].american
    /\ Len(bd.boundary) = models[self].steps + 1
    /\ \A j \in 0..models[self].steps :
         LET entry == bd.boundary[j + 1]
             nodes == QualifyingNodes(j)
         IN /\ entry.nan <=> nodes = {}
            /\ nodes # {} =>
                 /\ \E i \in nodes : entry.value = bd.stock_tree[i][j]
                 /\ \A i \in nodes :
                      IF params.is_call THEN entry.value <= bd.stock_tree[i][j]
                      ELSE entry.value >= bd.stock_tree[i][j]

\* a put's list with a NaN entry and with a step where two nodes of different
\* price qualify
C11_Witness ==
  /\ BoundaryReturned /\ ~params.is_call
  /\ \E j \in 0..models[self].steps : bd.boundary[j + 1].nan
  /\ \E j \in 0..models[self].steps :
       \E i, k \in QualifyingNodes(j) : bd.stock_tree[i][j] # bd.stock_tree[k][j]

\* C21: in get_early_exercise_boundary, the option value compared with the
\* intrinsic value at node (i, j) is the American value of that node from the
\* backward induction of price for the same params and steps, for every step
\* j = 0..steps and node i = 0..j.
C21_BoundaryUsesAmericanValues ==
  (BoundaryReturned /\ _validate_params(params) = "ok") =>
    \A j \in 0..models[self].steps : \A i \in 0..j :
      bd.option_tree[i][j] = OptionTree(params, models[self].steps, TRUE)[i][j]

\* the accesses stay inside the triangle node <= step
InsideTriangle(accesses) ==
  \A k \in 1..Len(accesses) : accesses[k].node <= accesses[k].step

\* every cell read was assigned earlier in the same call
WrittenBeforeRead(accesses) ==
  \A k \in 1..Len(accesses) :
    accesses[k].kind = "read" =>
      \E w \in 1..(k - 1) : accesses[w] = [accesses[k] EXCEPT !.kind = "write"]

\* C23: in _build_tree, price and get_early_exercise_boundary, the backward
\* induction and the boundary scan only read cells whose node index is <=
\* the step index; cells of the stock grid outside that triangle are never
\* written and stay zero; every cell read has been written before it is read.
C23_TriangleAccesses ==
  BoundaryReturned =>
    LET steps == models[self].steps
    IN /\ InsideTriangle(PriceAccesses(steps, TRUE))
       /\ InsideTriangle(PriceAccesses(steps, FALSE))
       /\ InsideTriangle(bd.accesses)
       /\ \A i \in 0..steps : \A j \in 0..steps : i > j => bd.stock_tree[i][j] = 0
       /\ WrittenBeforeRead(PriceAccesses(steps, TRUE))
       /\ WrittenBeforeRead(PriceAccesses(steps, FALSE))
       /\ WrittenBeforeRead(bd.accesses)

(***************************************************************************)
(* VolatilityCalculator (utils/volatility.py:14-85).                       *)
(*                                                                         *)
(* An array of floats is a sequence of Nan / Float(x) entries, element t   *)
(* of the array being element t + 1 of the sequence.                       *)
(***************************************************************************)
TradingDays == 252

\* np.sqrt(252), the root taken to three decimals of the four of the grid
Annualization == Float(10 * ISqrt(TradingDays * FP * 100))

\* float operations: NaN in, NaN out
NanAdd(a, b) == IF a.nan \/ b.nan THEN Nan ELSE Float(a.value + b.value)
NanSub(a, b) == IF a.nan \/ b.nan THEN Nan ELSE Float(a.value - b.value)
NanMul(a, b) == IF a.nan \/ b.nan THEN Nan ELSE Float(Mul(a.value, b.value))

\* a variance is kept in units of 1 / (FP * VarScale)
VarScale == 100

\* x ** 2 of a return, as a variance
Square(a) == IF a.nan THEN Nan ELSE Float(DivRound(a.value * a.value, FP \div VarScale))

\* np.sqrt of a variance; the root of a negative number is NaN
VarSqrt(v) == IF v.nan \/ v.value < 0 THEN Nan ELSE Float(ISqrt(v.value * VarScale))

AnyNan(array) == \E t \in 1..Len(array) : array[t].nan

RECURSIVE SumValues(_, _)
SumValues(array, n) == IF n = 0 THEN 0 ELSE array[n].value + SumValues(array, n - 1)

RECURSIVE SumSquares(_, _, _)
SumSquares(array, mean, n) ==
  IF n = 0 THEN 0
  ELSE (array[n].value - mean) * (array[n].value - mean) + SumSquares(array, mean, n - 1)

\* the sum of squared deviations from the mean, in units of 1/FP^2
Deviations(array) ==
  SumSquares(array, DivRound(SumValues(array, Len(array)), Len(array)), Len(array))

\* np.std(array, ddof = 1) of an array of two entries or more
NpStd(array) ==
  IF AnyNan(array) THEN Nan
  ELSE Float(ISqrt(DivRound(Deviations(array), Len(array) - 1)))

\* np.var(array); the variance of an empty array is NaN
NpVar(array) ==
  IF Len(array) = 0 \/ AnyNan(array) THEN Nan
  ELSE Float(DivRound(DivRound(Deviations(array), Len(array)), FP \div VarScale))

\* prices[1:] / prices[:-1], then np.log or - 1 (volatility.py:20-25)
calculate_returns(prices_, log_returns) ==
  [t \in 1..(Len(prices_) - 1) |->
     Float(IF log_returns THEN Ln(Div(prices_[t + 1], prices_[t]))
           ELSE Div(prices_[t + 1], prices_[t]) - FP)]

InsufficientMessage == "Need at least 2 returns to calculate volatility"

\* the window, not the number 2, is what the message of line 43 names
EwmaMessage == "Need at least {params.window} returns for EWMA calculation"

StationarityMessage == "alpha + beta must be less than 1 for stationarity"

IndexErrorMessage == "index 0 is out of bounds for axis 0 with size 0"

\* len(returns) < 2 (volatility.py:31)
TooFewReturns(returns) == Len(returns) < 2

\* volatility.py:35-36
historical_volatility(returns) == NanMul(NpStd(returns), Annualization)

\* len(returns) < params.window (volatility.py:42)
ShorterThanWindow(returns, window) == Len(returns) < window

\* variance[t] of volatility.py:46-51, t counted from 0
RECURSIVE EwmaVariance(_, _, _)
EwmaVariance(returns, decay, t) ==
  IF t = 0 THEN Square(returns[1])
  ELSE NanAdd(NanMul(Float(decay), EwmaVariance(returns, decay, t - 1)),
              NanMul(Float(FP - decay), Square(returns[t])))

\* volatility.py:46-55
ewma_volatility(returns, decay) ==
  [k \in 1..Len(returns) |->
     NanMul(VarSqrt(EwmaVariance(returns, decay, k - 1)), Annualization)]

\* the test written with >
NotStationary_strict(alpha, beta) == alpha + beta > FP

\* alpha + beta >= 1 (volatility.py:72)
NotStationary(alpha, beta) == alpha + beta >= FP

\* omega = (1 - alpha - beta) * np.var(returns) (volatility.py:75)
Omega(returns, alpha, beta) == NanMul(Float(FP - alpha - beta), NpVar(returns))

\* the series seeded with omega
RECURSIVE GarchVariance_seed_omega(_, _, _, _)
GarchVariance_seed_omega(returns, alpha, beta, t) ==
  IF t = 0 THEN Omega(returns, alpha, beta)
  ELSE NanAdd(NanAdd(Omega(returns, alpha, beta),
                     NanMul(Float(alpha), Square(returns[t]))),
              NanMul(Float(beta), GarchVariance_seed_omega(returns, alpha, beta, t - 1)))

\* variance[t] of volatility.py:75-82, t counted from 0
RECURSIVE GarchVariance(_, _, _, _)
GarchVariance(returns, alpha, beta, t) ==
  IF t = 0 THEN NpVar(returns)
  ELSE NanAdd(NanAdd(Omega(returns, alpha, beta),
                     NanMul(Float(alpha), Square(returns[t]))),
              NanMul(Float(beta), GarchVariance(returns, alpha, beta, t - 1)))

\* volatility.py:75-85
garch_volatility(returns, alpha, beta) ==
  [k \in 1..Len(returns) |->
     NanMul(VarSqrt(GarchVariance(returns, alpha, beta, k - 1)), Annualization)]

\* the array `variance` when the loop of volatility.py:79-82 has ended
GarchSeries(returns, alpha, beta) ==
  [k \in 1..Len(returns) |-> GarchVariance(returns, alpha, beta, k - 1)]

MaxPrices == 3
MaxReturns == 3

SeqsUpTo(S, n) == UNION { [1..k -> S] : k \in 0..n }

\* the arguments of the calls: price histories, return arrays with and
\* without NaN entries, windows below and above their length, (alpha, beta)
\* below, at and above 1
VolArgs ==
  { [prices |-> ps, log_returns |-> lg, returns |-> rs, window |-> w, decay |-> 9400,
     alpha |-> ab[1], beta |-> ab[2]] :
      ps \in SeqsUpTo({FP, 101 * (FP \div 100)}, MaxPrices), lg \in BOOLEAN,
      rs \in SeqsUpTo({Nan, Float(100), Float(-200)}, MaxReturns),
      w \in {0, 2, TradingDays},
      ab \in {<<1000, 8000>>, <<5000, 5000>>, <<5000, 6000>>} }

InitVol ==
  /\ models = ModelsWith(1, 1)
  /\ params = OptionParams(FP, FP, DaysPerYear, 500, 2000, 0, TRUE)
  /\ op = "none" /\ self = "Black-Scholes" /\ pc = "idle"
  /\ outcome = None /\ computed = {}
  /\ price_result = 0 /\ greeks_result = NoGreeks
  /\ prices = NoPrices
  /\ InitFd /\ InitIv /\ InitBd
  /\ vol_args \in VolArgs /\ vol_result = NoVolResult
  /\ surface = EmptySurface /\ InitSurf /\ InitApp

VcFrame == UNCHANGED <<models, params, self, price_result, greeks_result, prices,
                       fdVars, ivVars, bdVars, surfVars, appVars>>

VcReturn(method, value) ==
  /\ vol_result' = [of |-> method, value |-> value]
  /\ outcome' = Returned /\ pc' = "done"

VcRaise(message) ==
  /\ outcome' = Raised(message) /\ pc' = "done"
  /\ UNCHANGED vol_result

VcEnter(method, failed, message, next) ==
  /\ op' = method /\ computed' = {}
  /\ IF failed THEN VcRaise(message)
     ELSE outcome' = None /\ pc' = next /\ UNCHANGED vol_result
  /\ UNCHANGED vol_args
  /\ VcFrame

\* volatility.py:18-25
VC_calculate_returns ==
  /\ pc = "idle"
  /\ op' = "calculate_returns" /\ computed' = {"returns"}
  /\ VcReturn("calculate_returns",
              calculate_returns(vol_args.prices, vol_args.log_returns))
  /\ UNCHANGED vol_args
  /\ VcFrame

\* app.py:87-92: the returns just calculated become params.returns
VC_params ==
  /\ pc = "idle" /\ vol_result.of = "calculate_returns"
  /\ vol_args' = [vol_args EXCEPT !.returns = vol_result.value]
  /\ UNCHANGED <<op, pc, outcome, computed, vol_result>>
  /\ VcFrame

\* volatility.py:30-32
HV_check ==
  /\ pc = "idle"
  /\ VcEnter("historical_volatility", TooFewReturns(vol_args.returns), InsufficientMessage,
             "hv_compute")

\* volatility.py:35-36
HV_compute ==
  /\ pc = "hv_compute"
  /\ computed' = {"annualization", "std"}
  /\ VcReturn("historical_volatility", historical_volatility(vol_args.returns))
  /\ UNCHANGED <<op, vol_args>>
  /\ VcFrame

\* volatility.py:41-43
EWMA_check ==
  /\ pc = "idle"
  /\ VcEnter("ewma_volatility", ShorterThanWindow(vol_args.returns, vol_args.window),
             EwmaMessage, "ewma_compute")

\* volatility.py:46-55; variance[0] of an empty array is an IndexError
EWMA_compute ==
  /\ pc = "ewma_compute"
  /\ IF Len(vol_args.returns) = 0
     THEN computed' = {"variance"} /\ VcRaise(IndexErrorMessage)
     ELSE /\ computed' = {"variance", "volatility"}
          /\ VcReturn("ewma_volatility", ewma_volatility(vol_args.returns, vol_args.decay))
  /\ UNCHANGED <<op, vol_args>>
  /\ VcFrame

\* volatility.py:71-73
GARCH_check ==
  /\ pc = "idle"
  /\ VcEnter("garch_volatility", NotStationary(vol_args.alpha, vol_args.beta),
             StationarityMessage, "garch_compute")

\* volatility.py:75-85; variance[0] of an empty array is an IndexError
GARCH_compute ==
  /\ pc = "garch_compute"
  /\ IF Len(vol_args.returns) = 0
     THEN computed' = {"omega", "variance"} /\ VcRaise(IndexErrorMessage)
     ELSE /\ computed' = {"omega", "variance", "volatility"}
          /\ VcReturn("garch_volatility",
                      garch_volatility(vol_args.returns, vol_args.alpha, vol_args.beta))
  /\ UNCHANGED <<op, vol_args>>
  /\ VcFrame

VolMethods == {"calculate_returns", "historical_volatility", "ewma_volatility",
               "garch_volatility"}

\* the caller takes the result or the exception
VC_finish ==
  /\ pc = "done" /\ op \in VolMethods
  /\ pc' = "idle" /\ op' = "none" /\ outcome' = None
  /\ UNCHANGED <<computed, vol_args, vol_result>>
  /\ VcFrame

NextVol ==
  \/ VC_calculate_returns
  \/ VC_params
  \/ HV_check
  \/ HV_compute
  \/ EWMA_check
  \/ EWMA_compute
  \/ GARCH_check
  \/ GARCH_compute
  \/ VC_finish

SpecVol == InitVol /\ [][NextVol]_vars

(***************************************************************************)
(* Properties of the VolatilityCalculator methods.                         *)
(***************************************************************************)
VolDone(method) == op = method /\ pc = "done"

\* the entries of an array that are not NaN
ValidReturns(array) == SelectSeq(array, LAMBDA x : ~x.nan)

\* the return from one price to the next, log or simple
ReturnBetween(before, after, log_returns) ==
  Float(IF log_returns THEN Ln(Div(after, before)) ELSE Div(after, before) - FP)

\* C12: calculate_returns(prices) returns an array as long as prices whose
\* first entry is NaN and whose entry t >= 1 is the return from prices[t-1]
\* to prices[t].
C12_ReturnsAligned ==
  VolDone("calculate_returns") =>
    /\ Len(vol_result.value) = Len(vol_args.prices)
    /\ Len(vol_args.prices) >= 1 => vol_result.value[1].nan
    /\ \A k \in 2..Len(vol_args.prices) :
         vol_result.value[k] = ReturnBetween(vol_args.prices[k - 1], vol_args.prices[k],
                                             vol_args.log_returns)

\* C13: historical_volatility fails with the insufficient-data error whenever
\* fewer than 2 entries of returns are not NaN, and otherwise returns the
\* annualized sample deviation of the entries that are not NaN.
C13_HistoricalOnValid ==
  VolDone("historical_volatility") =>
    IF Len(ValidReturns(vol_args.returns)) < 2
    THEN outcome = Raised(InsufficientMessage)
    ELSE /\ outcome = Returned
         /\ vol_result.value = historical_volatility(ValidReturns(vol_args.returns))

\* C14: ewma_volatility fails with its insufficient-data error exactly when
\* fewer than 2 entries of returns are valid, and succeeds on 2 valid returns
\* or more whatever params.window is.
C14_EwmaNeedsTwo ==
  VolDone("ewma_volatility") =>
    IF Len(ValidReturns(vol_args.returns)) < 2
    THEN outcome = Raised(EwmaMessage)
    ELSE outcome = Returned

\* C15: garch_volatility with alpha + beta >= 1 has raised its parameter
\* error with nothing computed; with alpha + beta < 1 it never raises that
\* error.
C15_GarchStationarity ==
  op = "garch_volatility" =>
    IF vol_args.alpha + vol_args.beta >= FP
    THEN pc = "done" /\ outcome = Raised(StationarityMessage) /\ computed = {}
    ELSE outcome.error # StationarityMessage

\* the call refused with alpha + beta exactly 1
C15_Witness ==
  /\ VolDone("garch_volatility") /\ outcome = Raised(StationarityMessage)
  /\ vol_args.alpha + vol_args.beta = FP
  /\ Len(vol_args.returns) >= 2

GarchReturned == VolDone("garch_volatility") /\ outcome = Returned

\* var[t] = omega + alpha*returns[t-1]^2 + beta*var[t-1] at every t >= 1,
\* and the volatility returned is sqrt(var)*sqrt(252)
GarchRecursion(variance) ==
  /\ Len(variance) = Len(vol_args.returns)
  /\ \A t \in 1..(Len(variance) - 1) :
       At(variance, t) =
         NanAdd(NanAdd(Omega(vol_args.returns, vol_args.alpha, vol_args.beta),
                       NanMul(Float(vol_args.alpha), Square(At(vol_args.returns, t - 1)))),
                NanMul(Float(vol_args.beta), At(variance, t - 1)))
  /\ vol_result.value = [k \in 1..Len(variance) |-> NanMul(VarSqrt(variance[k]), Annualization)]

\* C26 as stated: the variance series of garch_volatility is as long as
\* returns, var[0] is omega = (1-alpha-beta)*Var(returns), and every later
\* entry is omega + alpha*returns[t-1]^2 + beta*var[t-1].
C26_AsStated ==
  GarchReturned =>
    LET variance == GarchSeries(vol_args.returns, vol_args.alpha, vol_args.beta)
    IN /\ GarchRecursion(variance)
       /\ At(variance, 0) = Omega(vol_args.returns, vol_args.alpha, vol_args.beta)

\* C26: the variance series of garch_volatility is as long as returns, var[0]
\* is Var(returns) itself (np.var, which is omega/(1-alpha-beta)), and every
\* later entry is omega + alpha*returns[t-1]^2 + beta*var[t-1] with
\* omega = (1-alpha-beta)*Var(returns).
C26_GarchSeries ==
  GarchReturned =>
    LET variance == GarchSeries(vol_args.returns, vol_args.alpha, vol_args.beta)
    IN /\ GarchRecursion(variance)
       /\ At(variance, 0) = NpVar(vol_args.returns)

\* three returns of non-zero variance: the seed is above omega
C26_Witness ==
  /\ GarchReturned
  /\ Len(vol_args.returns) = 3 /\ ~AnyNan(vol_args.returns)
  /\ NpVar(vol_args.returns).value > Omega(vol_args.returns, vol_args.alpha, vol_args.beta).value
  /\ Omega(vol_args.returns, vol_args.alpha, vol_args.beta).value > 0
  /\ ~vol_result.value[3].nan

(***************************************************************************)
(* ImpliedVolatilitySurface (utils/volatility.py:178-279).                 *)
(*                                                                         *)
(* Element k of a Python array is At(array, k).  The price and the vega of *)
(* one iteration of _newton_raphson_iv are the Black-Scholes formulas of   *)
(* lines 213-226; at a finite sigma they are drawn from SurfacePrices and  *)
(* SurfaceVegas, at a sigma that is inf or NaN they are NaN.               *)
(***************************************************************************)
SurfaceMaxIter == 2

SurfaceConvergenceMessage == "Implied volatility did not converge"

OutOfBoundsMessage == "Strike or maturity out of bounds"

\* diff / vega of floats: a division by 0.0 gives inf or NaN, not an error
NanDiv(a, b) ==
  IF a.nan \/ b.nan \/ b.value = 0 THEN Nan ELSE Float(Div(a.value, b.value))

\* abs(diff) < tolerance with the default tolerance 1e-5; false for NaN
SurfaceConverged(diff) == ~diff.nan /\ WithinTolerance(diff.value, 1)

\* the loop of volatility.py:212-229 from iteration `it` on, the prices and
\* vegas of the iterations given
RECURSIVE NewtonLoop(_, _, _, _, _, _)
NewtonLoop(market_price, price_seq, vega_seq, sigma, it, max_iter) ==
  IF it > max_iter
  THEN [error |-> SurfaceConvergenceMessage, value |-> sigma, trace |-> <<>>]
  ELSE LET price == IF sigma.nan THEN Nan ELSE Float(price_seq[it])
           diff  == NanSub(price, Float(market_price))
           vega  == IF sigma.nan THEN Nan ELSE Float(vega_seq[it])
           rest  == NewtonLoop(market_price, price_seq, vega_seq,
                               NanSub(sigma, NanDiv(diff, vega)),
                               it + 1, max_iter)
       IN IF SurfaceConverged(diff)
          THEN [error |-> "ok", value |-> sigma, trace |-> <<sigma>>]
          ELSE [rest EXCEPT !.trace = <<sigma>> \o @]

\* volatility.py:206-229: sigma = 0.5, then the loop
_newton_raphson_iv(market_price, price_seq, vega_seq, max_iter) ==
  NewtonLoop(market_price, price_seq, vega_seq, Float(FP \div 2), 1, max_iter)

\* np.zeros_like(self.market_prices)
ZerosLike(grid) == [i \in DOMAIN grid |-> [j \in DOMAIN grid[i] |-> Float(0)]]

\* the handler written to give up the row of the failed cell
OnCellFailure_row(grid, i, j) == [grid EXCEPT ![i] = [k \in DOMAIN grid[i] |-> Nan]]

\* except: self.iv_surface[i,j] = np.nan (volatility.py:241-242)
OnCellFailure(grid, i, j) == [grid EXCEPT ![i][j] = Nan]

\* the test written to hold on every call
IsNone_always(instance) == TRUE

\* if self.iv_surface is None (volatility.py:248, 254, 260)
IsNone(instance) == instance.iv_surface.is_none

\* np.searchsorted with side='right'
searchsorted_right(array, v) == Cardinality({ k \in 1..Len(array) : array[k] <= v })

\* np.searchsorted(array, v) on an ascending array: the number of entries
\* below v (volatility.py:264-265)
searchsorted(array, v) == Cardinality({ k \in 1..Len(array) : array[k] < v })

\* i == 0 or i == len(strikes) or j == 0 or j == len(maturities) (volatility.py:267)
OutOfBounds(instance, i, j) ==
  i = 0 \/ i = Len(instance.strikes) \/ j = 0 \/ j = Len(instance.maturities)

\* volatility.py:270-279
Bilinear(instance, strike, maturity, i, j) ==
  LET x == Float(Div(strike - At(instance.strikes, i - 1),
                     At(instance.strikes, i) - At(instance.strikes, i - 1)))
      y == Float(Div(maturity - At(instance.maturities, j - 1),
                     At(instance.maturities, j) - At(instance.maturities, j - 1)))
      grid == instance.iv_surface.grid
      v1 == grid[i - 1][j - 1]
      v2 == grid[i][j - 1]
      v3 == grid[i - 1][j]
      v4 == grid[i][j]
      one_x == Float(FP - x.value)
      one_y == Float(FP - y.value)
  IN NanAdd(NanAdd(NanMul(NanMul(one_x, one_y), v1), NanMul(NanMul(x, one_y), v2)),
            NanAdd(NanMul(NanMul(one_x, y), v3), NanMul(NanMul(x, y), v4)))

MaxCalls == 2

\* the prices and vegas an iteration can see: on and off the market price,
\* a vega of zero and a vega of one
SurfacePrices == {1000, 1500}
SurfaceVegas == {0, FP}

\* market_prices: one price per (strike index, maturity index)
MarketGrid(strikes, maturities) ==
  [i \in 0..(Len(strikes) - 1) |-> [j \in 0..(Len(maturities) - 1) |-> 1000]]

\* ImpliedVolatilitySurface(strikes, maturities, spot, rates, market_prices)
\* (volatility.py:181-204), the grids ascending
Instances ==
  { [strikes |-> ks, maturities |-> <<30, DaysPerYear>>, spot |-> FP, rates |-> <<500, 500>>,
     market_prices |-> MarketGrid(ks, <<30, DaysPerYear>>), iv_surface |-> NoneGrid] :
      ks \in { <<9 * (FP \div 10), FP>>, <<9 * (FP \div 10), FP, 11 * (FP \div 10)>> } }

\* the queries of interpolate: below, at, between and above the grid values
QueryStrikes == {8 * (FP \div 10), 9 * (FP \div 10), 95 * (FP \div 100), FP,
                 11 * (FP \div 10), 12 * (FP \div 10)}
QueryMaturities == {10, 30, 100, DaysPerYear, 400}

InitSurface ==
  /\ models = ModelsWith(1, 1)
  /\ params = OptionParams(FP, FP, DaysPerYear, 500, 2000, 0, TRUE)
  /\ op = "none" /\ self = "Black-Scholes" /\ pc = "idle"
  /\ outcome = None /\ computed = {}
  /\ price_result = 0 /\ greeks_result = NoGreeks
  /\ prices = NoPrices
  /\ InitFd /\ InitIv /\ InitBd
  /\ vol_args = NoVolArgs /\ vol_result = NoVolResult
  /\ surface \in Instances /\ InitSurf /\ InitApp

SfFrame == UNCHANGED <<models, params, self, price_result, greeks_result, prices,
                       fdVars, ivVars, bdVars, vol_args, vol_result, appVars>>

\* entry of an accessor and its `is None` test (volatility.py:248, 254, 260)
Begin(method, arg) ==
  /\ surface_log.calls < MaxCalls
  /\ op' = method /\ outcome' = None /\ computed' = {}
  /\ surf' = [arg |-> arg, i |-> 0, j |-> 0]
  /\ surface_log' = [surface_log EXCEPT !.calls = @ + 1]
  /\ pc' = IF IsNone(surface) THEN "calculate_surface" ELSE "accessor_body"
  /\ UNCHANGED <<surface, surface_result>>
  /\ SfFrame

\* volatility.py:246-249
IVS_get_smile ==
  /\ pc = "idle"
  /\ \E maturity_idx \in 0..(Len(surface.maturities) - 1) :
       Begin("get_smile", <<maturity_idx>>)

\* volatility.py:252-255
IVS_get_term_structure ==
  /\ pc = "idle"
  /\ \E strike_idx \in 0..(Len(surface.strikes) - 1) :
       Begin("get_term_structure", <<strike_idx>>)

\* volatility.py:258-261
IVS_interpolate ==
  /\ pc = "idle"
  /\ \E strike \in QueryStrikes, maturity \in QueryMaturities :
       Begin("interpolate", <<strike, maturity>>)

\* volatility.py:233
IVS_calculate_surface ==
  /\ pc = "calculate_surface"
  /\ surface' = [surface EXCEPT !.iv_surface =
                   [is_none |-> FALSE, grid |-> ZerosLike(surface.market_prices)]]
  /\ surface_log' = [surface_log EXCEPT !.runs = @ + 1]
  /\ computed' = {"iv_surface"}
  /\ pc' = "surface_cell"
  /\ UNCHANGED <<op, outcome, surf, surface_result>>
  /\ SfFrame

\* one pass of the inner loop body (volatility.py:235-242), then the next
\* cell, or `return self.iv_surface` after the last one
IVS_cell ==
  /\ pc = "surface_cell"
  /\ \E price_seq \in [1..SurfaceMaxIter -> SurfacePrices],
        vega_seq \in [1..SurfaceMaxIter -> SurfaceVegas] :
       LET i == surf.i
           j == surf.j
           found == _newton_raphson_iv(surface.market_prices[i][j], price_seq, vega_seq,
                                       SurfaceMaxIter)
           grid == surface.iv_surface.grid
       IN /\ surface' = [surface EXCEPT !.iv_surface.grid =
                           IF found.error = "ok" THEN [grid EXCEPT ![i][j] = found.value]
                           ELSE OnCellFailure(grid, i, j)]
          /\ surface_log' = [surface_log EXCEPT
                               !.visited = Append(@, <<i, j>>),
                               !.failed = IF found.error = "ok" THEN @ ELSE @ \cup {<<i, j>>}]
  /\ IF surf.j + 1 < Len(surface.maturities)
     THEN surf' = [surf EXCEPT !.j = @ + 1] /\ pc' = "surface_cell"
     ELSE IF surf.i + 1 < Len(surface.strikes)
          THEN surf' = [surf EXCEPT !.i = @ + 1, !.j = 0] /\ pc' = "surface_cell"
          ELSE surf' = surf /\ pc' = "accessor_body"
  /\ UNCHANGED <<op, outcome, computed, surface_result>>
  /\ SfFrame

SfReturn(value) ==
  /\ surface_result' = [of |-> op, value |-> value]
  /\ surface_log' = [surface_log EXCEPT !.read = Append(@, surface.iv_surface.grid)]
  /\ outcome' = Returned /\ pc' = "done"

\* volatility.py:250
IVS_smile_return ==
  /\ pc = "accessor_body" /\ op = "get_smile"
  /\ SfReturn(<<surface.strikes,
                [k \in 1..Len(surface.strikes) |->
                   surface.iv_surface.grid[k - 1][At(surf.arg, 0)]]>>)
  /\ UNCHANGED <<op, computed, surface, surf>>
  /\ SfFrame

\* volatility.py:256
IVS_term_return ==
  /\ pc = "accessor_body" /\ op = "get_term_structure"
  /\ SfReturn(<<surface.maturities,
                [k \in 1..Len(surface.maturities) |->
                   surface.iv_surface.grid[At(surf.arg, 0)][k - 1]]>>)
  /\ UNCHANGED <<op, computed, surface, surf>>
  /\ SfFrame

\* volatility.py:264-279
IVS_interpolate_body ==
  /\ pc = "accessor_body" /\ op = "interpolate"
  /\ LET strike == At(surf.arg, 0)
         maturity == At(surf.arg, 1)
         i == searchsorted(surface.strikes, strike)
         j == searchsorted(surface.maturities, maturity)
     IN /\ surf' = [surf EXCEPT !.i = i, !.j = j]
        /\ IF OutOfBounds(surface, i, j)
           THEN /\ outcome' = Raised(OutOfBoundsMessage) /\ pc' = "done"
                /\ surface_log' = [surface_log EXCEPT
                                     !.read = Append(@, surface.iv_surface.grid)]
                /\ UNCHANGED surface_result
           ELSE SfReturn(Bilinear(surface, strike, maturity, i, j))
  /\ UNCHANGED <<op, computed, surface>>
  /\ SfFrame

Accessors == {"get_smile", "get_term_structure", "interpolate"}

\* the caller takes the result or the exception
IVS_finish ==
  /\ pc = "done" /\ op \in Accessors
  /\ pc' = "idle" /\ op' = "none" /\ outcome' = None
  /\ surf' = NoAccess /\ surface_result' = <<>>
  /\ UNCHANGED <<computed, surface, surface_log>>
  /\ SfFrame

NextSurface ==
  \/ IVS_get_smile
  \/ IVS_get_term_structure
  \/ IVS_interpolate
  \/ IVS_calculate_surface
  \/ IVS_cell
  \/ IVS_smile_return
  \/ IVS_term_return
  \/ IVS_interpolate_body
  \/ IVS_finish

SpecSurface == InitSurface /\ [][NextSurface]_vars

(***************************************************************************)
(* Properties of ImpliedVolatilitySurface.                                 *)
(***************************************************************************)
\* the cells of the grid in the order of the two loops of calculate_surface
RowMajor(instance) ==
  [n \in 1..(Len(instance.strikes) * Len(instance.maturities)) |->
     <<(n - 1) \div Len(instance.maturities), (n - 1) % Len(instance.maturities)>>]

\* calculate_surface has returned
SurfaceComputed ==
  surface_log.runs >= 1 /\ pc \notin {"calculate_surface", "surface_cell"}

\* C16: calculate_surface visits every (strike index, maturity index) cell
\* once, in loop order; the grid has the shape of market_prices; when it has
\* returned, a cell is NaN exactly when its own inversion failed, every other
\* cell holds the sigma found for it, and no error left the method.
C16_SurfaceToleratesFailures ==
  /\ ~surface.iv_surface.is_none =>
       /\ DOMAIN surface.iv_surface.grid = DOMAIN surface.market_prices
       /\ \A i \in DOMAIN surface.market_prices :
            DOMAIN surface.iv_surface.grid[i] = DOMAIN surface.market_prices[i]
       /\ Len(surface_log.visited) <= Len(RowMajor(surface))
       /\ surface_log.visited = SubSeq(RowMajor(surface), 1, Len(surface_log.visited))
  /\ pc = "surface_cell" => outcome = None
  /\ SurfaceComputed =>
       /\ surface_log.visited = RowMajor(surface)
       /\ outcome.error # SurfaceConvergenceMessage
       /\ \A i \in DOMAIN surface.market_prices :
            \A j \in DOMAIN surface.market_prices[i] :
              surface.iv_surface.grid[i][j].nan <=> <<i, j>> \in surface_log.failed

\* a surface whose first cell failed and whose other cells were all inverted
C16_Witness ==
  /\ SurfaceComputed
  /\ surface_log.failed = {<<0, 0>>}
  /\ surface.iv_surface.grid[0][0].nan
  /\ ~surface.iv_surface.grid[0][1].nan
  /\ Len(surface.strikes) = 3 /\ ~surface.iv_surface.grid[2][1].nan

\* C17: whatever accessors are called on an instance, calculate_surface is
\* executed once, during the first call; every accessor call read the grid
\* stored then.
C17_SurfaceComputedOnce ==
  /\ surface_log.runs <= 1
  /\ pc \in {"calculate_surface", "surface_cell"} => surface_log.calls = 1
  /\ (surface_log.calls >= 1 /\ pc # "calculate_surface") => surface_log.runs = 1
  /\ \A k \in 1..Len(surface_log.read) : surface_log.read[k] = surface.iv_surface.grid

\* a second accessor call has returned from the grid of the first
C17_Witness ==
  /\ surface_log.calls = 2 /\ pc = "done" /\ outcome = Returned
  /\ Len(surface_log.read) = 2 /\ surface_log.runs = 1
  /\ op = "get_term_structure"

InterpolateDone == op = "interpolate" /\ pc = "done"

\* C18: interpolate(strike, maturity) on ascending grids raises the
\* out-of-bounds error exactly when strike <= strikes[0], strike >
\* strikes[last], maturity <= maturities[0] or maturity > maturities[last],
\* and returns a value otherwise.
C18_InterpolateBounds ==
  InterpolateDone =>
    LET strike == At(surf.arg, 0)
        maturity == At(surf.arg, 1)
        outside == \/ strike <= surface.strikes[1]
                   \/ strike > surface.strikes[Len(surface.strikes)]
                   \/ maturity <= surface.maturities[1]
                   \/ maturity > surface.maturities[Len(surface.maturities)]
    IN IF outside THEN outcome = Raised(OutOfBoundsMessage) ELSE outcome = Returned

\* a query at the greatest strike and the greatest maturity answered
C18_Witness ==
  /\ InterpolateDone /\ outcome = Returned
  /\ At(surf.arg, 0) = surface.strikes[Len(surface.strikes)]
  /\ At(surf.arg, 1) = surface.maturities[Len(surface.maturities)]

\* C19: interpolate(strikes[i], maturities[j]) returns the stored value
\* iv_surface[i,j], for every grid point (i, j).
C19_GridPointValue ==
  InterpolateDone =>
    \A i \in 0..(Len(surface.strikes) - 1), j \in 0..(Len(surface.maturities) - 1) :
      (At(surf.arg, 0) = At(surface.strikes, i) /\ At(surf.arg, 1) = At(surface.maturities, j))
        => /\ outcome = Returned
           /\ surface_result.value = surface.iv_surface.grid[i][j]

(***************************************************************************)
(* The two Newton-Raphson searches side by side.                           *)
(***************************************************************************)
\* the prices and the vegas a finished implied_volatility call was given, one
\* per iteration, as the inputs of _newton_raphson_iv on the same iterations
\* (an iteration implied_volatility did not reach is given the market price)
PricesSeen ==
  [k \in 1..iv.max_iter |->
     IF k <= Len(iv_log.evals) THEN iv_log.evals[k].price ELSE iv.market_price]

VegasSeen ==
  [k \in 1..iv.max_iter |->
     IF k <= Len(iv_log.vegas) THEN iv_log.vegas[k].vega ELSE FP]

\* C25: _newton_raphson_iv performs the per-iteration steps of
\* implied_volatility (seed 0.5, same tolerance test, failure for a vega
\* near zero, a non-positive updated sigma set to 0.0001), so on the same
\* prices and vegas both searches visit the same sigmas and end the same way.
C25_SameSearch ==
  ( /\ Searching /\ pc = "done" /\ iv.tolerance = 1
    /\ outcome \in {Returned, Raised(VegaMessage), Raised(ConvergenceMessage)} )
  => LET found == _newton_raphson_iv(iv.market_price, PricesSeen, VegasSeen, iv.max_iter)
     IN /\ found.trace = [k \in 1..Len(iv_log.trace) |-> Float(iv_log.trace[k])]
        /\ found.error = "ok" <=> outcome = Returned
        /\ found.error = SurfaceConvergenceMessage <=> outcome = Raised(ConvergenceMessage)
        /\ outcome = Returned => found.value = Float(iv_result)

(***************************************************************************)
(* The range estimators (utils/volatility.py:87-138) and the dashboard's   *)
(* calculate_volatility_measures (app.py:79-134).                          *)
(*                                                                         *)
(* hist_data is a sequence of bars [Open, High, Low, Close], oldest first. *)
(***************************************************************************)
\* np.log(a / b) of two columns
LogRatio(a, b) ==
  [k \in 1..Len(a) |->
     IF a[k].nan \/ b[k].nan THEN Nan ELSE Float(Ln(Div(a[k].value, b[k].value)))]

\* 1 / (4 * np.log(2)) * log_hl**2 (volatility.py:103-104), per bar
ParkinsonEstimator(high, low) ==
  LET log_hl == LogRatio(high, low)
  IN [k \in 1..Len(high) |-> NanMul(Float(3607), Square(log_hl[k]))]

\* 0.5 * log_hl**2 - (2 * np.log(2) - 1) * log_co**2 (volatility.py:133-136)
GarmanKlassEstimator(open_, high, low, close) ==
  LET log_hl == LogRatio(high, low)
      log_co == LogRatio(close, open_)
  IN [k \in 1..Len(high) |->
        NanSub(NanMul(Float(FP \div 2), Square(log_hl[k])),
               NanMul(Float(3863), Square(log_co[k])))]

MinPeriods == 2

\* what pandas answers to rolling(window, min_periods) with an integer
\* window below min_periods
MinPeriodsMessage == "min_periods {min_periods} must be <= window {window}"

RECURSIVE SumOver(_, _)
SumOver(array, indices) ==
  IF indices = {} THEN 0
  ELSE LET k == CHOOSE k \in indices : TRUE
       IN array[k].value + SumOver(array, indices \ {k})

\* the rolling mean with one valid entry taken as enough
RollingMean_min_one(array, window, min_periods, t) ==
  LET valid == { k \in Max(1, t - window + 1)..t : ~array[k].nan }
  IN IF Cardinality(valid) < 1 THEN Nan
     ELSE Float(DivRound(SumOver(array, valid), Cardinality(valid)))

\* pd.Series(array).rolling(window = window, min_periods = min_periods).mean()
\* at position t (counted from 1): the mean of the entries that are not NaN
\* among the last `window` positions, NaN if they are fewer than min_periods
RollingMean(array, window, min_periods, t) ==
  LET valid == { k \in Max(1, t - window + 1)..t : ~array[k].nan }
  IN IF Cardinality(valid) < min_periods THEN Nan
     ELSE Float(DivRound(SumOver(array, valid), Cardinality(valid)))

\* np.sqrt(252 * rolling_var.to_numpy()) (volatility.py:105-106, 137-138)
RollingVolatility(estimator, window) ==
  [t \in 1..Len(estimator) |->
     LET rolling_var == RollingMean(estimator, window, MinPeriods, t)
     IN IF rolling_var.nan THEN Nan ELSE VarSqrt(Float(TradingDays * rolling_var.value))]

\* volatility.py:101-106
parkinson_volatility(high, low, window) ==
  RollingVolatility(ParkinsonEstimator(high, low), window)

\* volatility.py:128-138
garman_klass_volatility(open_, high, low, close, window) ==
  RollingVolatility(GarmanKlassEstimator(open_, high, low, close), window)

\* hist_data['Close'].values and the like
Column(hist_data, name) == [k \in 1..Len(hist_data) |-> hist_data[k][name]]

\* Python's None, and a float held in its place
NoValue == [is_none |-> TRUE, value |-> Nan]
Some(x) == [is_none |-> FALSE, value |-> x]

\* the helper written to return the last entry of the series
get_last_valid_last_entry(series) ==
  IF Len(series) = 0 THEN NoValue ELSE Some(series[Len(series)])

\* get_last_valid of an ndarray (app.py:113-121)
get_last_valid(series) ==
  LET valid_indices == { k \in 1..Len(series) : ~series[k].nan }
  IN IF valid_indices = {} THEN NoValue
     ELSE Some(series[SetMax(valid_indices)])

\* raise ValueError(f"Error calculating volatility measures: {str(e)}")
\* (app.py:132-134)
Wrapped(message) == "Error calculating volatility measures: " \o message

NotEnoughDaysMessage == "Need at least {window} days of data for volatility calculations"

MaxBars == 3

\* bars: a day without range, a day that opens at its low and closes at its
\* high, a day whose high is missing, and a day whose close lies outside
\* its range
Bars ==
  { [Open |-> Float(FP), High |-> Float(FP), Low |-> Float(FP), Close |-> Float(FP)],
    [Open |-> Float(FP), High |-> Float(101 * (FP \div 100)), Low |-> Float(FP),
     Close |-> Float(101 * (FP \div 100))],
    [Open |-> Float(FP), High |-> Nan, Low |-> Float(FP), Close |-> Float(FP)],
    [Open |-> Float(FP), High |-> Float(FP), Low |-> Float(FP),
     Close |-> Float(101 * (FP \div 100))] }

Windows == {1, 2, 3}

InitMeasures ==
  /\ models = ModelsWith(1, 1)
  /\ params = OptionParams(FP, FP, DaysPerYear, 500, 2000, 0, TRUE)
  /\ op = "none" /\ self = "Black-Scholes" /\ pc = "idle"
  /\ outcome = None /\ computed = {}
  /\ price_result = 0 /\ greeks_result = NoGreeks
  /\ prices = NoPrices
  /\ InitFd /\ InitIv /\ InitBd
  /\ vol_args = NoVolArgs /\ vol_result = NoVolResult
  /\ surface = EmptySurface /\ InitSurf
  /\ \E hist_data \in SeqsUpTo(Bars, MaxBars), window \in Windows :
       measures = [NoMeasures EXCEPT !.hist_data = hist_data, !.window = window]
  /\ dash = NoDash

MsFrame == UNCHANGED <<models, params, self, price_result, greeks_result, prices,
                       fdVars, ivVars, bdVars, vol_args, surfVars, dash>>

\* a direct call of parkinson_volatility on the columns of hist_data
PK_call ==
  /\ pc = "idle"
  /\ op' = "parkinson_volatility" /\ pc' = "done"
  /\ IF measures.window < MinPeriods
     THEN /\ outcome' = Raised(MinPeriodsMessage) /\ computed' = {"estimator"}
          /\ UNCHANGED vol_result
     ELSE /\ outcome' = Returned /\ computed' = {"estimator", "rolling_var"}
          /\ vol_result' = [of |-> "parkinson_volatility",
                            value |-> parkinson_volatility(Column(measures.hist_data, "High"),
                                                           Column(measures.hist_data, "Low"),
                                                           measures.window)]
  /\ UNCHANGED measures
  /\ MsFrame

\* a direct call of garman_klass_volatility on the columns of hist_data
GK_call ==
  /\ pc = "idle"
  /\ op' = "garman_klass_volatility" /\ pc' = "done"
  /\ IF measures.window < MinPeriods
     THEN /\ outcome' = Raised(MinPeriodsMessage) /\ computed' = {"estimator"}
          /\ UNCHANGED vol_result
     ELSE /\ outcome' = Returned /\ computed' = {"estimator", "rolling_var"}
          /\ vol_result' = [of |-> "garman_klass_volatility",
                            value |-> garman_klass_volatility(
                                        Column(measures.hist_data, "Open"),
                                        Column(measures.hist_data, "High"),
                                        Column(measures.hist_data, "Low"),
                                        Column(measures.hist_data, "Close"),
                                        measures.window)]
  /\ UNCHANGED measures
  /\ MsFrame

\* the except clause of calculate_volatility_measures
CvmRaise(message) ==
  /\ outcome' = Raised(Wrapped(message)) /\ pc' = "done"
  /\ UNCHANGED measures

CvmStore(name, series, next) ==
  /\ measures' = [measures EXCEPT !.series = (name :> series) @@ @]
  /\ outcome' = None /\ pc' = next

\* app.py:83-84
CVM_check ==
  /\ pc = "idle"
  /\ op' = "calculate_volatility_measures" /\ computed' = {}
  /\ IF Len(measures.hist_data) < measures.window
     THEN CvmRaise(NotEnoughDaysMessage)
     ELSE /\ outcome' = None /\ pc' = "cvm_returns"
          /\ measures' = [measures EXCEPT !.returns = <<>>,
                                          !.series = NoMeasures.series,
                                          !.current_vols = NoMeasures.current_vols]
  /\ UNCHANGED vol_result
  /\ MsFrame

\* app.py:87-92: every close of the bars is a number
CVM_returns ==
  /\ pc = "cvm_returns"
  /\ measures' = [measures EXCEPT !.returns =
                    calculate_returns([k \in 1..Len(measures.hist_data) |->
                                         measures.hist_data[k].Close.value], TRUE)]
  /\ pc' = "cvm_historical"
  /\ UNCHANGED <<op, outcome, computed, vol_result>>
  /\ MsFrame

\* app.py:95
CVM_historical ==
  /\ pc = "cvm_historical"
  /\ IF TooFewReturns(measures.returns)
     THEN CvmRaise(InsufficientMessage)
     ELSE CvmStore("hist", <<historical_volatility(measures.returns)>>, "cvm_ewma")
  /\ UNCHANGED <<op, computed, vol_result>>
  /\ MsFrame

\* app.py:98, with the decay of VolatilityParams
CVM_ewma ==
  /\ pc = "cvm_ewma"
  /\ IF ShorterThanWindow(measures.returns, measures.window)
     THEN CvmRaise(EwmaMessage)
     ELSE CvmStore("ewma", ewma_volatility(measures.returns, 9400), "cvm_garch")
  /\ UNCHANGED <<op, computed, vol_result>>
  /\ MsFrame

\* app.py:99, with the alpha and beta of garch_volatility
CVM_garch ==
  /\ pc = "cvm_garch"
  /\ CvmStore("garch", garch_volatility(measures.returns, 1000, 8000), "cvm_parkinson")
  /\ UNCHANGED <<op, computed, vol_result>>
  /\ MsFrame

\* app.py:100-104
CVM_parkinson ==
  /\ pc = "cvm_parkinson"
  /\ IF measures.window < MinPeriods
     THEN CvmRaise(MinPeriodsMessage)
     ELSE CvmStore("park",
                   parkinson_volatility(Column(measures.hist_data, "High"),
                                        Column(measures.hist_data, "Low"), measures.window),
                   "cvm_garman_klass")
  /\ UNCHANGED <<op, computed, vol_result>>
  /\ MsFrame

\* app.py:105-111
CVM_garman_klass ==
  /\ pc = "cvm_garman_klass"
  /\ IF measures.window < MinPeriods
     THEN CvmRaise(MinPeriodsMessage)
     ELSE CvmStore("gk",
                   garman_klass_volatility(Column(measures.hist_data, "Open"),
                                           Column(measures.hist_data, "High"),
                                           Column(measures.hist_data, "Low"),
                                           Column(measures.hist_data, "Close"),
                                           measures.window),
                   "cvm_return")
  /\ UNCHANGED <<op, computed, vol_result>>
  /\ MsFrame

SeriesNames == {"ewma", "garch", "park", "gk"}

\* app.py:123-130
CVM_return ==
  /\ pc = "cvm_return"
  /\ measures' = [measures EXCEPT !.current_vols =
                    [name \in SeriesNames \cup {"hist"} |->
                       IF name = "hist" THEN Some(measures.series["hist"][1])
                       ELSE get_last_valid(measures.series[name])]]
  /\ outcome' = Returned /\ pc' = "done"
  /\ computed' = {"current_vols"}
  /\ UNCHANGED <<op, vol_result>>
  /\ MsFrame

MeasureMethods == {"parkinson_volatility", "garman_klass_volatility",
                   "calculate_volatility_measures"}

\* the caller takes the result or the exception
MS_finish ==
  /\ pc = "done" /\ op \in MeasureMethods
  /\ pc' = "idle" /\ op' = "none" /\ outcome' = None
  /\ UNCHANGED <<computed, vol_result, measures>>
  /\ MsFrame

NextMeasures ==
  \/ PK_call
  \/ GK_call
  \/ CVM_check
  \/ CVM_returns
  \/ CVM_historical
  \/ CVM_ewma
  \/ CVM_garch
  \/ CVM_parkinson
  \/ CVM_garman_klass
  \/ CVM_return
  \/ MS_finish

SpecMeasures == InitMeasures /\ [][NextMeasures]_vars

(***************************************************************************)
(* Properties of the range estimators and of the dashboard's measures.     *)
(***************************************************************************)
RangeCallDone ==
  op \in {"parkinson_volatility", "garman_klass_volatility"} /\ pc = "done"

\* the per-bar estimators of the method that was called
Estimators ==
  IF op = "parkinson_volatility"
  THEN ParkinsonEstimator(Column(measures.hist_data, "High"),
                          Column(measures.hist_data, "Low"))
  ELSE GarmanKlassEstimator(Column(measures.hist_data, "Open"),
                            Column(measures.hist_data, "High"),
                            Column(measures.hist_data, "Low"),
                            Column(measures.hist_data, "Close"))

\* the positions of the last `window` ending at t whose estimator is not NaN
ValidInWindow(t) ==
  { k \in 1..t : k > t - measures.window /\ ~Estimators[k].nan }

\* C27 as stated: parkinson_volatility and garman_klass_volatility return a
\* series as long as the bars, in which position t is NaN exactly when fewer
\* than 2 valid per-bar estimators lie in the last `window` positions ending
\* at t.
C27_AsStated ==
  RangeCallDone =>
    /\ outcome = Returned
    /\ Len(vol_result.value) = Len(measures.hist_data)
    /\ \A t \in 1..Len(vol_result.value) :
         vol_result.value[t].nan <=> Cardinality(ValidInWindow(t)) < 2

\* C27: for a window of 2 or more, parkinson_volatility and
\* garman_klass_volatility return a series as long as the bars; position t
\* is NaN when fewer than 2 valid per-bar estimators lie in the last `window`
\* positions ending at t, and also when the mean of those estimators is
\* negative, which happens only in garman_klass_volatility; otherwise it is
\* sqrt(252 * mean of the valid estimators).  Position 0 is always NaN.  A
\* window below 2 is refused by the rolling mean.
C27_RollingNaN ==
  RangeCallDone =>
    IF measures.window < 2 THEN outcome = Raised(MinPeriodsMessage)
    ELSE /\ outcome = Returned
         /\ Len(vol_result.value) = Len(measures.hist_data)
         /\ Len(vol_result.value) >= 1 => vol_result.value[1].nan
         /\ \A t \in 1..Len(vol_result.value) :
              LET valid == ValidInWindow(t)
                  total == SumOver(Estimators, valid)
              IN /\ vol_result.value[t].nan <=> (Cardinality(valid) < 2 \/ total < 0)
                 /\ op = "parkinson_volatility" => total >= 0
                 /\ ~vol_result.value[t].nan =>
                      vol_result.value[t] =
                        VarSqrt(Float(TradingDays * DivRound(total, Cardinality(valid))))

\* three bars, the second without a high, and a window of three: the third
\* position is the only number, the mean of the two estimators that are not
\* NaN, and it is not zero
C27_Witness ==
  /\ RangeCallDone /\ outcome = Returned
  /\ measures.window = 3 /\ Len(vol_result.value) = 3
  /\ Estimators[2].nan
  /\ vol_result.value[1].nan /\ vol_result.value[2].nan
  /\ ~vol_result.value[3].nan /\ vol_result.value[3].value > 0

MeasuresReturned ==
  op = "calculate_volatility_measures" /\ pc = "done" /\ outcome = Returned

\* C28: get_last_valid returns, for a volatility series, the value at the
\* highest index whose entry is not NaN, and None when every entry is NaN or
\* the series is empty; it never returns a NaN.
C28_LastValid ==
  MeasuresReturned =>
    \A name \in SeriesNames :
      LET series == measures.series[name]
          last == measures.current_vols[name]
      IN /\ last.is_none <=> \A k \in 1..Len(series) : series[k].nan
         /\ ~last.is_none =>
              /\ ~last.value.nan
              /\ \E k \in 1..Len(series) :
                   /\ series[k] = last.value
                   /\ ~series[k].nan
                   /\ \A m \in (k + 1)..Len(series) : series[m].nan

\* the Parkinson series ends with a NaN after a number, which is the value
\* reported, and the Garman-Klass series is NaN throughout and reports None
C28_Witness ==
  /\ MeasuresReturned
  /\ Len(measures.series["park"]) = 3
  /\ measures.series["park"][3].nan /\ ~measures.series["park"][2].nan
  /\ measures.current_vols["park"] = Some(measures.series["park"][2])
  /\ measures.current_vols["park"].value.value > 0
  /\ measures.current_vols["gk"] = NoValue

\* C29: whenever the length check of calculate_volatility_measures passes
\* (len(hist_data) >= window, equality included), the length check of
\* ewma_volatility on the returns of the same closes passes too, and the EWMA
\* step does not raise its insufficient-data error.
C29_EwmaCheckPasses ==
  (op = "calculate_volatility_measures" /\ Len(measures.hist_data) >= measures.window) =>
    /\ pc = "cvm_ewma" => Len(measures.returns) >= measures.window
    /\ outcome # Raised(Wrapped(EwmaMessage))

(***************************************************************************)
(* The dashboard: one run of main (app.py:136-380), from the sidebar to    *)
(* the Greeks Analysis tab.                                                *)
(***************************************************************************)
\* list(calculator.models.keys()), in the order of OptionsCalculator.__init__
ModelKeys == <<"Black-Scholes", "Binomial Tree (European)", "Binomial Tree (American)">>

\* what calculator.calculate_all_greeks(params, model_name) raises, if
\* anything (app.py:26-31): model.price validates, then model.greeks
CalcError(model, p) ==
  IF _validate_params(p) # "ok" THEN _validate_params(p) ELSE GreeksError(model, p)

\* the values the sidebar's widgets are set to
SidebarDays == {1, 30}
SidebarStrikes == {FP, 11 * (FP \div 10)}

InitDashboard ==
  /\ models = ModelsWith(MaxSteps, MaxSteps)
  /\ params = OptionParams(FP, FP, 30, 200, 3000, 0, TRUE)
  /\ op = "none" /\ self = "Black-Scholes" /\ pc = "idle"
  /\ outcome = None /\ computed = {}
  /\ price_result = 0 /\ greeks_result = NoGreeks
  /\ prices = NoPrices
  /\ InitFd /\ InitIv /\ InitBd
  /\ vol_args = NoVolArgs /\ vol_result = NoVolResult
  /\ surface = EmptySurface /\ InitSurf
  /\ measures = NoMeasures /\ dash = NoDash

DsFrame == UNCHANGED <<self, price_result, greeks_result, prices, fdVars, ivVars, bdVars,
                       vol_args, vol_result, surfVars, measures>>

\* app.py:146-194: a new calculator, the widgets, the selected model's steps,
\* the OptionParams of the run
Sidebar ==
  /\ pc = "idle"
  /\ \E model_name \in ModelNames, strike \in SidebarStrikes, days \in SidebarDays,
        is_call \in BOOLEAN, steps \in 1..MaxSteps :
       /\ models' = IF ModelsWith(MaxSteps, MaxSteps)[model_name].kind = "bin"
                    THEN [ModelsWith(MaxSteps, MaxSteps) EXCEPT ![model_name].steps = steps]
                    ELSE ModelsWith(MaxSteps, MaxSteps)
       /\ params' = OptionParams(FP, strike, days, 200, 3000, 0, is_call)
       /\ dash' = [NoDash EXCEPT !.selected = model_name, !.model_name = model_name]
  /\ op' = "main" /\ pc' = "tab1" /\ outcome' = None /\ computed' = {}
  /\ DsFrame

\* app.py:197-199: the results of the selected model; an error leaves the
\* tab through its except clause
Tab1_results ==
  /\ pc = "tab1"
  /\ IF CalcError(models[dash.model_name], params) # "ok"
     THEN /\ outcome' = Raised(CalcError(models[dash.model_name], params))
          /\ pc' = "tab3"
     ELSE outcome' = None /\ pc' = "tab1_compare"
  /\ computed' = {"results"}
  /\ UNCHANGED <<models, params, op, dash>>
  /\ DsFrame

\* app.py:225-235: one pass of `for model_name in calculator.models.keys()`,
\* or the end of the loop
Tab1_compare ==
  /\ pc = "tab1_compare"
  /\ IF Len(dash.compared) = Len(ModelKeys)
     THEN /\ pc' = "tab3" /\ UNCHANGED <<dash, outcome>>
     ELSE LET model_name == ModelKeys[Len(dash.compared) + 1]
          IN /\ dash' = [dash EXCEPT !.model_name = model_name,
                                     !.compared = Append(@, model_name)]
             /\ IF CalcError(models[model_name], params) # "ok"
                THEN /\ outcome' = Raised(CalcError(models[model_name], params))
                     /\ pc' = "tab3"
                ELSE outcome' = outcome /\ pc' = "tab1_compare"
  /\ UNCHANGED <<models, params, op, computed>>
  /\ DsFrame

\* app.py:351-367: the curves over price_range, computed with model_name;
\* params.S is left at the last price tried
Tab3_greeks ==
  /\ pc = "tab3"
  /\ LET first == [params EXCEPT !.S = params.S \div 2]
         last  == [params EXCEPT !.S = 3 * (params.S \div 2)]
     IN IF CalcError(models[dash.model_name], first) # "ok"
        THEN /\ params' = first
             /\ outcome' = Raised(CalcError(models[dash.model_name], first))
             /\ UNCHANGED dash
        ELSE /\ params' = last
             /\ outcome' = Returned
             /\ dash' = [dash EXCEPT !.curves = dash.model_name]
  /\ pc' = "done"
  /\ computed' = computed \cup {"price_range"}
  /\ UNCHANGED <<models, op>>
  /\ DsFrame

\* the script has run; the next interaction runs it again
Rerun ==
  /\ pc = "done" /\ op = "main"
  /\ pc' = "idle" /\ op' = "none" /\ outcome' = None /\ computed' = {}
  /\ dash' = NoDash
  /\ UNCHANGED <<models, params>>
  /\ DsFrame

NextDashboard ==
  \/ Sidebar
  \/ Tab1_results
  \/ Tab1_compare
  \/ Tab3_greeks
  \/ Rerun

SpecDashboard == InitDashboard /\ [][NextDashboard]_vars

\* C30: the Greeks Analysis tab computes its curves with the model selected
\* in the sidebar, also after the model-comparison loop of the Option
\* Pricing tab has run; the selected model name is not changed between the
\* selection and its use in the Greeks Analysis tab.
C30_GreeksUseSelectedModel ==
  op = "main" =>
    /\ dash.model_name = dash.selected
    /\ (pc = "done" /\ outcome = Returned) => dash.curves = dash.selected

(***************************************************************************)
(* The calculator as a whole: any of the calls above, one at a time.       *)
(***************************************************************************)
Init == InitPrice \/ InitGreeks \/ InitIV \/ InitBoundary \/ InitVol \/ InitSurface
          \/ InitMeasures \/ InitDashboard

Next == NextPrice \/ NextGreeks \/ NextIV \/ NextBoundary \/ NextVol \/ NextSurface
          \/ NextMeasures \/ NextDashboard

Spec == Init /\ [][Next]_vars

====
